---- MODULE Spec2Model ----
(***************************************************************************)
(* Model of the windowed-statistics engine of libkram's astc-encoder        *)
(* (astcenc_compute_variance.cpp): the Brent-Kung prefix sum, the per-tile  *)
(* summed-area-table computation of averages and variances, and the worker  *)
(* loop that claims work units from the shared task manager.                *)
(*                                                                         *)
(* Numbers: a float is modelled as an exact rational <<n, d>> with d > 0,   *)
(* so the formulas below speak of the values the code computes in exact     *)
(* arithmetic (rounding of the 32-bit float operations is not modelled).    *)
(***************************************************************************)
EXTENDS Integers, Sequences, FiniteSets, TLC

VARIABLES
    cfg,            \* the run's inputs: image, radii, powers, swizzle, threads
    ag,             \* avg_var_args filled by init_compute_averages_and_variances
    task_count,     \* manage_avg_var: number of work units of the run
    start_count,    \* manage_avg_var: the atomic cursor
    done_count,     \* manage_avg_var: units reported complete
    pc,             \* per worker: position in compute_averages_and_variances
    base,           \* per worker: local `base`
    count,          \* per worker: local `count`
    arg,            \* per worker: local `arg` (offset and size of the tile)
    xcur,           \* per worker: loop variable `x` of the inner for loop
    input_averages, \* ctx.input_averages          (output index i is
    input_variances,\* ctx.input_variances          element i + 1 of these
    input_alpha_averages, \* ctx.input_alpha_averages  five sequences)
    writes,         \* history: number of stores to each output index
    writer,         \* history: the workers that stored to each output index
    grants,         \* history: the units granted, [w, base, n] for the n-th
    tiles,          \* history: the tiles passed to compute_pixel_region_variance
    crashed,        \* the process was terminated (failed assert / faulting store)
    oob,            \* a store outside the output arrays has happened
    bk_d,           \* prefix-sum harness: the array d
    bk_in,          \* prefix-sum harness: the array before the call
    bk_p,           \* prefix-sum harness: the cell the pointer d points at
    bk_items,       \* prefix-sum harness: argument items
    bk_stride,      \* prefix-sum harness: argument stride
    bk_pc,          \* prefix-sum harness: "idle" | "ready" | "done"
    tl_arg,         \* tile harness: the arguments of the call
    tl_pad,         \* tile harness: the two planes after the layer of zeros
    tl_sat,         \* tile harness: the two planes after the prefix sums
    tl_out,         \* tile harness: the stores of the call, in program order
    tl_swap,        \* tile harness: the two output channels exchanged
    tl_out2,        \* tile harness: the stores of the call with that swizzle
    tl_pc,          \* tile harness: "idle" | "ready" | "called" | "swapped"
    ph_arg,         \* phase harness: the arguments of the call in progress
    ph_buf,         \* phase harness: the two planes of the work memory
    ph_out,         \* phase harness: the stores of the call so far
    ph_step,        \* phase harness: the phase of the call that runs next
    mm_addr,        \* MmapHelper: addr
    mm_length,      \* MmapHelper: length
    mm_ret,         \* MmapHelper: what the last open returned, as a string
    mm_op,          \* MmapHelper: the last call: "none", "open", "close", "~"
    mm_live,        \* the addresses of the mappings the process holds
    mm_unmapped     \* the address the last close handed to munmap

schedVars == <<cfg, ag, task_count, start_count, done_count, pc, base, count,
               arg, xcur, input_averages, input_variances,
               input_alpha_averages, writes, writer, grants, tiles, crashed,
               oob>>
bkVars == <<bk_d, bk_in, bk_p, bk_items, bk_stride, bk_pc>>
tlVars == <<tl_arg, tl_pad, tl_sat, tl_out, tl_swap, tl_out2, tl_pc>>
phVars == <<ph_arg, ph_buf, ph_out, ph_step>>
mmVars == <<mm_addr, mm_length, mm_ret, mm_op, mm_live, mm_unmapped>>
harnessVars == <<bkVars, tlVars, phVars, mmVars>>
vars == <<schedVars, harnessVars>>

----------------------------------------------------------------------------
(* Bounds of the model *)

MaxItems == 9       \* longest array handed to the prefix-sum harness
MaxStride == 3      \* largest stride handed to the prefix-sum harness
MaxWorkers == 2     \* largest number of worker threads
MaxRadius == 1      \* largest kernel radius
MaxBlocks == 2      \* image dimensions go up to 32 * MaxBlocks + 1
MaxLength == 3      \* largest length of a file handed to MmapHelper::open

----------------------------------------------------------------------------
(* Arithmetic helpers *)

MIN(a, b) == IF a < b THEN a ELSE b
MAX(a, b) == IF a > b THEN a ELSE b

RECURSIVE Pow2(_)
Pow2(n) == IF n = 0 THEN 1 ELSE 2 * Pow2(n - 1)

\* x >> n and x << n on non-negative integers
Shr(x, n) == x \div Pow2(n)
Shl(x, n) == x * Pow2(n)

Abs(a) == IF a < 0 THEN -a ELSE a

RECURSIVE GCD(_, _)
GCD(a, b) == IF b = 0 THEN a ELSE GCD(b, a % b)

\* Rationals <<n, d>>, d > 0
Rat(n) == <<n, 1>>
RNorm(a) == LET g == GCD(Abs(a[1]), a[2]) IN <<a[1] \div g, a[2] \div g>>
RAdd(a, b) == IF a[2] = b[2] THEN <<a[1] + b[1], a[2]>>
              ELSE <<a[1] * b[2] + b[1] * a[2], a[2] * b[2]>>
RNeg(a) == <<-a[1], a[2]>>
RSub(a, b) == RAdd(a, RNeg(b))
RMul(a, b) == <<a[1] * b[1], a[2] * b[2]>>
RInv(a) == <<a[2], a[1]>>           \* 1.0f / a, a > 0
REq(a, b) == RNorm(a) = RNorm(b)
RLess(a, b) == LET x == RNorm(a) y == RNorm(b) IN x[1] * y[2] < y[1] * x[2]
RZero == Rat(0)
ROne == Rat(1)

\* float4 and its componentwise operators (r, g, b, a are components 1..4)
F4Splat(v) == <<v, v, v, v>>
F4Add(p, q) == <<RAdd(p[1], q[1]), RAdd(p[2], q[2]), RAdd(p[3], q[3]),
                 RAdd(p[4], q[4])>>
F4Sub(p, q) == <<RSub(p[1], q[1]), RSub(p[2], q[2]), RSub(p[3], q[3]),
                 RSub(p[4], q[4])>>
F4Mul(p, q) == <<RMul(p[1], q[1]), RMul(p[2], q[2]), RMul(p[3], q[3]),
                 RMul(p[4], q[4])>>
F4Scale(p, s) == <<RMul(p[1], s), RMul(p[2], s), RMul(p[3], s), RMul(p[4], s)>>
F4Norm(p) == <<RNorm(p[1]), RNorm(p[2]), RNorm(p[3]), RNorm(p[4])>>

\* A memory of n cells is the sequence of its cells: cell i (from 0) is
\* element i + 1.  Array(n, f) is the memory whose cell i holds f[i + 1].
Array(n, f) == SubSeq(f, 1, n)
Ld(d, i) == d[i + 1]
St(d, i, v) == [d EXCEPT ![i + 1] = v]
\* TRUE; the memory d is computed when this is evaluated, so that a phase is
\* finished before the phase that reads its result begins
Done(d) == Len(d) >= 0

----------------------------------------------------------------------------
(* brent_kung_prefix_sum, lines 51-103.  d is the memory the pointer        *)
(* argument points into, p the index of the cell it points at.              *)

\* A faulty variant of the inner while loop: the sum is stored one step too
\* low, in the cell before the one it belongs to
RECURSIVE BKInnerShifted(_, _, _, _, _)
BKInnerShifted(d, da, ofs, ofs_stride, iters) ==
    IF iters = 0 THEN d
    ELSE BKInnerShifted(St(d, da + 2 * ofs, F4Add(Ld(d, da), Ld(d, da + ofs))),
                        da + ofs_stride, ofs, ofs_stride, iters - 1)

\* the inner while loop, lines 72-77 and 96-101
RECURSIVE BKInner(_, _, _, _, _)
BKInner(d, da, ofs, ofs_stride, iters) ==
    IF iters = 0 THEN d
    ELSE BKInner(St(d, da, F4Add(Ld(d, da), Ld(d, da + ofs))),
                 da + ofs_stride, ofs, ofs_stride, iters - 1)

\* the reduction-tree do-while loop, lines 63-81
RECURSIVE BKReduce(_, _, _, _, _, _)
BKReduce(d, p, items, stride, lc_stride, log2_stride) ==
    LET step == Shr(lc_stride, 1)
        start == lc_stride - 1
        iters == Shr(items, log2_stride)
        da == p + start * stride
        ofs == -(step * stride)
        ofs_stride == Shl(stride, log2_stride)
        d2 == BKInner(d, da, ofs, ofs_stride, iters)
    IN IF Done(d2) /\ Shl(lc_stride, 1) <= items
       THEN BKReduce(d2, p, items, stride, Shl(lc_stride, 1), log2_stride + 1)
       ELSE [d |-> d2, lc_stride |-> Shl(lc_stride, 1),
             log2_stride |-> log2_stride + 1]

\* A faulty variant of the expansion-tree loop: the loop is left out
BKExpandSkipped(d, p, items, stride, lc_stride0, log2_stride0) == d

\* the expansion-tree do-while loop, lines 84-102
RECURSIVE BKExpand(_, _, _, _, _, _)
BKExpand(d, p, items, stride, lc_stride0, log2_stride0) ==
    LET log2_stride == log2_stride0 - 1
        lc_stride == Shr(lc_stride0, 1)
        step == Shr(lc_stride, 1)
        start == step + lc_stride - 1
        iters == Shr(items - step, log2_stride)
        da == p + start * stride
        ofs == -(step * stride)
        ofs_stride == Shl(stride, log2_stride)
        d2 == BKInner(d, da, ofs, ofs_stride, iters)
    IN IF Done(d2) /\ lc_stride > 2
       THEN BKExpand(d2, p, items, stride, lc_stride, log2_stride)
       ELSE d2

brent_kung_prefix_sum(d, p, items, stride) ==
    IF items < 2 THEN d
    ELSE LET up == BKReduce(d, p, items, stride, 2, 1)
         IN BKExpand(up.d, p, items, stride, up.lc_stride, up.log2_stride)

\* The cells brent_kung_prefix_sum reads and writes: the same loops, the
\* indices d and d + ofs of lines 74 and 98 collected instead of summed.
BKInnerCells(da, ofs, ofs_stride, iters) ==
    UNION {{da + k * ofs_stride, da + k * ofs_stride + ofs} :
              k \in 0..(iters - 1)}

RECURSIVE BKReduceCells(_, _, _, _, _)
BKReduceCells(p, items, stride, lc_stride, log2_stride) ==
    LET step == Shr(lc_stride, 1)
        start == lc_stride - 1
        iters == Shr(items, log2_stride)
        here == BKInnerCells(p + start * stride, -(step * stride),
                             Shl(stride, log2_stride), iters)
    IN IF Shl(lc_stride, 1) <= items
       THEN LET up == BKReduceCells(p, items, stride, Shl(lc_stride, 1),
                                    log2_stride + 1)
            IN [up EXCEPT !.cells = @ \cup here]
       ELSE [cells |-> here, lc_stride |-> Shl(lc_stride, 1),
             log2_stride |-> log2_stride + 1]

RECURSIVE BKExpandCells(_, _, _, _, _)
BKExpandCells(p, items, stride, lc_stride0, log2_stride0) ==
    LET log2_stride == log2_stride0 - 1
        lc_stride == Shr(lc_stride0, 1)
        step == Shr(lc_stride, 1)
        start == step + lc_stride - 1
        iters == Shr(items - step, log2_stride)
        here == BKInnerCells(p + start * stride, -(step * stride),
                             Shl(stride, log2_stride), iters)
    IN IF lc_stride > 2
       THEN here \cup BKExpandCells(p, items, stride, lc_stride, log2_stride)
       ELSE here

BKCells(p, items, stride) ==
    IF items < 2 THEN {}
    ELSE LET up == BKReduceCells(p, items, stride, 2, 1)
         IN up.cells \cup BKExpandCells(p, items, stride, up.lc_stride,
                                        up.log2_stride)

----------------------------------------------------------------------------
(* The image and the other inputs of a run *)

ASTCENC_SWZ_R == 0
ASTCENC_SWZ_G == 1
ASTCENC_SWZ_B == 2
ASTCENC_SWZ_A == 3
ASTCENC_SWZ_0 == 4
ASTCENC_SWZ_1 == 5

ASTCENC_TYPE_U8 == "U8"
ASTCENC_TYPE_F16 == "F16"
ASTCENC_TYPE_F32 == "F32"

IdentitySwz == <<ASTCENC_SWZ_R, ASTCENC_SWZ_G, ASTCENC_SWZ_B, ASTCENC_SWZ_A>>

\* The pixel contents of the test images, as a level 0..3 per channel.
\*   "flat"    every pixel has the same colour
\*   "checker" the 0 / full checkerboard, replicated in all channels
\*   "ramp"    every channel differs and varies with x, y and z
\*   "tone"    as "ramp", without the level 0
Level(pattern, x, y, z) ==
    CASE pattern = "flat" -> <<1, 2, 3, 1>>
      [] pattern = "tone" -> <<1 + ((x + 2 * y + 3 * z) % 3), 1 + ((x + 1) % 3),
                               1 + ((y + z) % 3),
                               1 + ((x + y + 2 * z + 1) % 3)>>
      [] pattern = "checker" -> F4Splat(3 * ((x + y + z) % 2))
      [] pattern = "ramp" -> <<(x + 2 * y + 3 * z) % 4, (x + 1) % 4,
                               (y + z) % 4, (x + y + 2 * z + 1) % 4>>

\* The stored element of a channel level in each pixel format: a byte,
\* the bits of a half float (0, 0.5, 1.0, 2.0), or a float.
RawOf(data_type, level) ==
    CASE data_type = ASTCENC_TYPE_U8 -> 85 * level
      [] data_type = ASTCENC_TYPE_F16 -> <<0, 14336, 15360, 16384>>[level + 1]
      [] data_type = ASTCENC_TYPE_F32 -> Rat(level)

\* img->data as the contiguous row-major buffer of 4-channel pixels:
\* the pixel with flat pixel index px (= (z * dim_y + y) * dim_x + x).
ImgPixel(img, px) ==
    LET x == px % img.dim_x
        y == (px \div img.dim_x) % img.dim_y
        z == px \div (img.dim_x * img.dim_y)
        lv == Level(img.pattern, x, y, z)
    IN <<RawOf(img.data_type, lv[1]), RawOf(img.data_type, lv[2]),
         RawOf(img.data_type, lv[3]), RawOf(img.data_type, lv[4])>>

\* img->data as the array of arrays data16[z][y][4 * x + c]
ImgPixel3(img, z, y, x) == ImgPixel(img, (z * img.dim_y + y) * img.dim_x + x)

NumPixels(img) == img.dim_x * img.dim_y * img.dim_z

\* astc::clamp(v, low, high): returns the clamped value, v itself is unchanged
clamp(v, low, high) == IF v < low THEN low ELSE IF v > high THEN high ELSE v

\* sf16_to_float on the bit patterns of zero, subnormal and normal halves
sf16_to_float(h) ==
    LET e == (h \div 1024) % 32
        m == h % 1024
        mag == IF e = 0 THEN RNorm(<<m, Pow2(24)>>)
               ELSE IF e >= 25 THEN Rat((1024 + m) * Pow2(e - 25))
               ELSE RNorm(<<1024 + m, Pow2(25 - e)>>)
    IN IF h >= 32768 THEN RNeg(mag) ELSE mag

\* powf(MAX(v, 1e-6f), power) for the exponents 0.0 and 1.0
PowFloor(v, power) ==
    IF power = 0 THEN ROne
    ELSE IF RLess(v, <<1, 1000000>>) THEN <<1, 1000000>> ELSE v

----------------------------------------------------------------------------
(* compute_pixel_region_variance, lines 113-606 *)

\* lines 140-163: the padded sizes and the strides
RegionDims(a) ==
    LET kernel_radius == MAX(a.avg_var_kernel_radius, a.alpha_kernel_radius)
        kerneldim == 2 * kernel_radius + 1
        padsize_x == a.size[1] + kerneldim
        padsize_y == a.size[2] + kerneldim
        padsize_z == a.size[3] + (IF a.have_z THEN kerneldim ELSE 0)
    IN [kernel_radius_xy |-> kernel_radius,
        kernel_radius_z |-> IF a.have_z THEN kernel_radius ELSE 0,
        padsize_x |-> padsize_x, padsize_y |-> padsize_y,
        padsize_z |-> padsize_z,
        sizeprod |-> padsize_x * padsize_y * padsize_z,
        zd_start |-> IF a.have_z THEN 1 ELSE 0,
        yst |-> padsize_x, zst |-> padsize_x * padsize_y,
        ydt |-> a.img.dim_x, zdt |-> a.img.dim_x * a.img.dim_y]

\* VARBUF1(z, y, x) / VARBUF2(z, y, x): the cell index in its plane
VARBUF(dm, z, y, x) == z * dm.zst + y * dm.yst + x

\* A faulty variant of the test: every swizzle takes the fast path
needs_swz_never(swz) == FALSE

\* lines 169-171
needs_swz(swz) ==
    (swz[1] /= ASTCENC_SWZ_R) \/ (swz[2] /= ASTCENC_SWZ_G) \/
    (swz[3] /= ASTCENC_SWZ_B) \/ (swz[4] /= ASTCENC_SWZ_A)

\* A faulty variant of the swizzle: the alpha entry of swz is not looked at
SwizzleTableAlphaFixed(raw, zero, one, swz) ==
    <<<<raw[1], raw[2], raw[3], raw[4], zero, one>>[swz[1] + 1],
      <<raw[1], raw[2], raw[3], raw[4], zero, one>>[swz[2] + 1],
      <<raw[1], raw[2], raw[3], raw[4], zero, one>>[swz[3] + 1], raw[4]>>

\* data[swz.r], data[swz.g], data[swz.b], data[swz.a] on the 6-entry table
\* whose entries 4 and 5 are the constants zero and one
SwizzleTable(raw, zero, one, swz) ==
    LET data == <<raw[1], raw[2], raw[3], raw[4], zero, one>>
    IN <<data[swz[1] + 1], data[swz[2] + 1], data[swz[3] + 1],
         data[swz[4] + 1]>>

\* lines 174-250: one U8 sample.  The pixel is fetched from
\* data8[(y_src * dim_x + x_src) * 4 ..], whatever z_src is.
SampleU8(a, z_src, y_src, x_src) ==
    LET px == y_src * a.img.dim_x + x_src
        swizzled(rgba) == IF needs_swz(a.swz)
                          THEN SwizzleTable(rgba, 0, 255, a.swz)
                          ELSE rgba
        scaled(s) == F4Scale(<<Rat(s[1]), Rat(s[2]), Rat(s[3]), Rat(s[4])>>,
                             <<1, 255>>)
    IN scaled(swizzled(ImgPixel(a.img, px)))

\* lines 251-304: one F16 sample, fetched from data16[z_src][y_src][4 * x_src ..]
SampleF16(a, z_src, y_src, x_src) ==
    LET floats(s) == Array(4, [c \in 1..4 |-> sf16_to_float(s[c])])
    IN floats(SwizzleTable(ImgPixel3(a.img, z_src, y_src, x_src),
                           0, 15360, a.swz))

\* lines 305-378: one F32 sample, fetched from data32[y_src * dim_x + x_src],
\* whatever z_src is (line 334 asserts z_src == 0)
SampleF32(a, z_src, y_src, x_src) ==
    LET swizzled(d) == IF needs_swz(a.swz)
                       THEN SwizzleTable(d, RZero, ROne, a.swz) ELSE d
    IN swizzled(ImgPixel(a.img, y_src * a.img.dim_x + x_src))

\* the power curve, lines 237-243
ApplyPowers(a, d) ==
    IF a.rgb_power = 1 /\ a.alpha_power = 1 THEN d
    ELSE Array(4, [c \in 1..4 |->
                   PowFloor(d[c], IF c = 4 THEN a.alpha_power
                                  ELSE a.rgb_power)])

\* the source coordinates of work-buffer cell (z, y, x), lines 186-199
SrcCoord(a, dm, z, y, x) ==
    [z |-> clamp((z - dm.zd_start) + a.offset[3] - dm.kernel_radius_z,
                 0, a.img.dim_z - 1),
     y |-> clamp((y - 1) + a.offset[2] - dm.kernel_radius_xy,
                 0, a.img.dim_y - 1),
     x |-> clamp((x - 1) + a.offset[1] - dm.kernel_radius_xy,
                 0, a.img.dim_x - 1)]

\* the value d stored for work-buffer cell (z, y, x)
SampleCell(a, dm, z, y, x) ==
    LET d(s) ==
            CASE a.img.data_type = ASTCENC_TYPE_U8 -> SampleU8(a, s.z, s.y, s.x)
              [] a.img.data_type = ASTCENC_TYPE_F16 -> SampleF16(a, s.z, s.y, s.x)
              [] OTHER -> SampleF32(a, s.z, s.y, s.x)
    IN ApplyPowers(a, d(SrcCoord(a, dm, z, y, x)))

\* line 334: the assert of the F32 path holds for every sampled cell
SampleAssertsHold(a) ==
    LET dm == RegionDims(a)
    IN a.img.data_type = ASTCENC_TYPE_F32 =>
           \A z \in dm.zd_start..(dm.padsize_z - 1) :
               clamp((z - dm.zd_start) + a.offset[3] - dm.kernel_radius_z,
                     0, a.img.dim_z - 1) = 0

Uninit == "uninit"

\* lines 173-378: the two planes after the load loops.  Cells the loops do
\* not visit keep whatever the work memory held.
LoadWorkBuffers(a) ==
    LET dm == RegionDims(a)
        loaded(z, y, x) == z >= dm.zd_start /\ y >= 1 /\ x >= 1
        d(z, y, x) == IF loaded(z, y, x) THEN SampleCell(a, dm, z, y, x)
                      ELSE Uninit
        cell(i) == d(i \div dm.zst, (i % dm.zst) \div dm.yst, i % dm.yst)
        square(i, v) == IF loaded(i \div dm.zst, (i % dm.zst) \div dm.yst,
                                  i % dm.yst)
                        THEN F4Mul(v, v) ELSE Uninit
        squares(v1) ==
            [varbuf1 |-> v1,
             varbuf2 |-> Array(dm.sizeprod, [j \in 1..dm.sizeprod |->
                                                square(j - 1, v1[j])])]
    IN squares(Array(dm.sizeprod, [j \in 1..dm.sizeprod |-> cell(j - 1)]))

\* lines 380-407: the layer of zeros
PadZeros(a, wb) ==
    LET dm == RegionDims(a)
        vbz == F4Splat(RZero)
        border(i) == \/ i % dm.yst = 0
                     \/ (i % dm.zst) \div dm.yst = 0
                     \/ (a.have_z /\ i \div dm.zst = 0)
    IN [p \in {"varbuf1", "varbuf2"} |->
           IF Done(wb[p])
           THEN Array(dm.sizeprod, [j \in 1..dm.sizeprod |->
                          IF border(j - 1) THEN vbz ELSE wb[p][j]])
           ELSE <<>>]

\* A faulty variant of the loops over the lines: only the first line is summed
PrefixLinesFirstOnly(d, starts, lo, hi, items, stride) ==
    IF lo > hi THEN d
    ELSE brent_kung_prefix_sum(d, starts[lo], items, stride)

\* brent_kung_prefix_sum on the lines starting at starts[lo], ..., starts[hi],
\* in this order (the range is halved so that the evaluation stays shallow)
RECURSIVE PrefixLines(_, _, _, _, _, _)
PrefixLines(d, starts, lo, hi, items, stride) ==
    IF ~Done(d) \/ lo > hi THEN d
    ELSE IF lo = hi THEN brent_kung_prefix_sum(d, starts[lo], items, stride)
    ELSE LET mid == (lo + hi) \div 2
             d1 == PrefixLines(d, starts, lo, mid, items, stride)
         IN PrefixLines(d1, starts, mid + 1, hi, items, stride)

\* lines 411-418: the prefix sums along x of one plane
SumAlongX(a, buf) ==
    LET dm == RegionDims(a)
        nz == dm.padsize_z - dm.zd_start
        ny == dm.padsize_y - 1
        xs == [k \in 1..(nz * ny) |->
                  VARBUF(dm, dm.zd_start + ((k - 1) \div ny), 1 + ((k - 1) % ny), 1)]
    IN PrefixLines(buf, xs, 1, nz * ny, dm.padsize_x - 1, 1)

\* lines 420-427: the prefix sums along y of one plane
SumAlongY(a, buf) ==
    LET dm == RegionDims(a)
        nz == dm.padsize_z - dm.zd_start
        nx == dm.padsize_x - 1
        ys == [k \in 1..(nz * nx) |->
                  VARBUF(dm, dm.zd_start + ((k - 1) \div nx), 1, 1 + ((k - 1) % nx))]
    IN PrefixLines(buf, ys, 1, nz * nx, dm.padsize_y - 1, dm.yst)

\* lines 429-439: the prefix sums along z of one plane, volumetric only
SumAlongZ(a, buf) ==
    LET dm == RegionDims(a)
        ny == dm.padsize_y - 1
        nx == dm.padsize_x - 1
        zs == [k \in 1..(ny * nx) |->
                  VARBUF(dm, 1, 1 + ((k - 1) \div nx), 1 + ((k - 1) % nx))]
    IN PrefixLines(buf, zs, 1, IF a.have_z THEN ny * nx ELSE 0,
                   dm.padsize_z - 1, dm.zst)

\* lines 409-439: the summed-area tables of one plane
SummedAreaTable(a, buf) == SumAlongZ(a, SumAlongY(a, SumAlongX(a, buf)))

SummedAreaTables(a, wb) ==
    [p \in {"varbuf1", "varbuf2"} |-> SummedAreaTable(a, wb[p])]

\* lines 441-470: the sample counts and the variance multipliers
StatConsts(a) ==
    LET avg_var_kdim == 2 * a.avg_var_kernel_radius + 1
        alpha_kdim == 2 * a.alpha_kernel_radius + 1
        avg_var_samples == IF a.have_z
                           THEN avg_var_kdim * avg_var_kdim * avg_var_kdim
                           ELSE avg_var_kdim * avg_var_kdim
        alpha_samples == IF a.have_z
                         THEN alpha_kdim * alpha_kdim * alpha_kdim
                         ELSE alpha_kdim * alpha_kdim
        mul1 == IF avg_var_samples = 1 THEN ROne
                ELSE RInv(Rat(avg_var_samples * (avg_var_samples - 1)))
    IN [avg_var_samples |-> avg_var_samples,
        alpha_rsamples |-> RInv(Rat(alpha_samples)),
        avg_var_rsamples |-> RInv(Rat(avg_var_samples)),
        mul1 |-> mul1,
        mul2 |-> RMul(Rat(avg_var_samples), mul1)]

\* the x, y, z of the k-th iteration (k from 0) of the output loops,
\* lines 475-498 (z, y, x nested) and 554-565 (y, x nested)
LoopPos(a, k) ==
    IF a.have_z
    THEN [z |-> k \div (a.size[2] * a.size[1]),
          y |-> (k \div a.size[1]) % a.size[2],
          x |-> k % a.size[1]]
    ELSE [z |-> 0, y |-> k \div a.size[1], x |-> k % a.size[1]]

\* the number of iterations of the output loops
LoopCount(a) ==
    IF a.have_z THEN a.size[3] * a.size[2] * a.size[1]
    ELSE a.size[2] * a.size[1]

\* A faulty variant of the corners: the results of the astc::clamp calls are
\* assigned to the corners
CornersClamped(a, dm, pos) ==
    [z_low |-> IF a.have_z
               THEN clamp(pos.z + dm.kernel_radius_z - a.alpha_kernel_radius,
                          0, a.img.dim_z - 1)
               ELSE 0,
     z_high |-> IF a.have_z
                THEN clamp(pos.z + dm.kernel_radius_z + a.alpha_kernel_radius + 1,
                           0, a.img.dim_z - 1)
                ELSE 0,
     y_low |-> clamp(pos.y + dm.kernel_radius_xy - a.alpha_kernel_radius,
                     0, a.img.dim_y - 1),
     y_high |-> clamp(pos.y + dm.kernel_radius_xy + a.alpha_kernel_radius + 1,
                      0, a.img.dim_y - 1),
     x_low |-> clamp(pos.x + dm.kernel_radius_xy - a.alpha_kernel_radius,
                     0, a.img.dim_x - 1),
     x_high |-> clamp(pos.x + dm.kernel_radius_xy + a.alpha_kernel_radius + 1,
                      0, a.img.dim_x - 1)]

\* A faulty variant of the corners: the radius of the padding is left out
CornersUnpadded(a, dm, pos) ==
    [z_low |-> IF a.have_z THEN pos.z - a.alpha_kernel_radius ELSE 0,
     z_high |-> IF a.have_z THEN pos.z + a.alpha_kernel_radius + 1 ELSE 0,
     y_low |-> pos.y - a.alpha_kernel_radius,
     y_high |-> pos.y + a.alpha_kernel_radius + 1,
     x_low |-> pos.x - a.alpha_kernel_radius,
     x_high |-> pos.x + a.alpha_kernel_radius + 1]

\* lines 477-507 and 556-574: the corners of the window of the pixel.  The
\* astc::clamp calls of these lines discard their results, so the values
\* stay as computed; both sums below use these same corners.
Corners(a, dm, pos) ==
    LET z_src == pos.z + dm.kernel_radius_z
        y_src == pos.y + dm.kernel_radius_xy
        x_src == pos.x + dm.kernel_radius_xy
    IN [z_low |-> IF a.have_z THEN z_src - a.alpha_kernel_radius ELSE 0,
        z_high |-> IF a.have_z THEN z_src + a.alpha_kernel_radius + 1 ELSE 0,
        y_low |-> y_src - a.alpha_kernel_radius,
        y_high |-> y_src + a.alpha_kernel_radius + 1,
        x_low |-> x_src - a.alpha_kernel_radius,
        x_high |-> x_src + a.alpha_kernel_radius + 1]

\* A faulty variant of out_index: the offset of the tile is left out
OutIndexTileLocal(a, k) ==
    LET index(dm, pos) ==
            IF a.have_z THEN pos.z * dm.zdt + pos.y * dm.ydt + pos.x
            ELSE pos.y * dm.ydt + pos.x
    IN index(RegionDims(a), LoopPos(a, k))

\* lines 519 and 582: out_index
OutIndex(a, k) ==
    LET index(dm, pos) ==
            IF a.have_z
            THEN (pos.z + a.offset[3]) * dm.zdt + (pos.y + a.offset[2]) * dm.ydt
                 + (pos.x + a.offset[1])
            ELSE (pos.y + a.offset[2]) * dm.ydt + (pos.x + a.offset[1])
    IN index(RegionDims(a), LoopPos(a, k))

\* the summed-area-table lookups of lines 523-539 (eight corners) and
\* 586-594 (four corners) on one plane
TableSum(a, dm, buf, c) ==
    LET at(z, y, x) == Ld(buf, VARBUF(dm, z, y, x))
        face(z) == F4Add(F4Sub(F4Sub(at(z, c.y_low, c.x_low),
                                     at(z, c.y_low, c.x_high)),
                               at(z, c.y_high, c.x_low)),
                         at(z, c.y_high, c.x_high))
    IN IF a.have_z THEN F4Sub(face(c.z_high), face(c.z_low)) ELSE face(0)

\* lines 472-605: what the k-th iteration of the output loops stores
WindowStats(a, sat, k) ==
    LET stores(sc, vasum, v1sum, v2sum) ==
            [out_index |-> OutIndex(a, k),
             alpha |-> RNorm(RMul(vasum, sc.alpha_rsamples)),
             avg |-> F4Norm(F4Scale(v1sum, sc.avg_var_rsamples)),
             variance |-> F4Norm(F4Sub(F4Scale(v2sum, sc.mul2),
                                       F4Scale(F4Mul(v1sum, v1sum), sc.mul1)))]
        sums(dm, c) ==
            stores(StatConsts(a),
                   TableSum(a, dm, sat.varbuf1, c)[4],
                   TableSum(a, dm, sat.varbuf1, c),
                   TableSum(a, dm, sat.varbuf2, c))
        corners(dm) == sums(dm, Corners(a, dm, LoopPos(a, k)))
    IN corners(RegionDims(a))

\* lines 472-605: the stores to the three output arrays, in program order
\* (element k + 1 is the store of iteration k of the output loops)
OutputStage(a, sat) ==
    IF Done(sat.varbuf1) /\ Done(sat.varbuf2)
    THEN Array(LoopCount(a),
               [j \in 1..LoopCount(a) |-> WindowStats(a, sat, j - 1)])
    ELSE <<>>

\* the whole call
compute_pixel_region_variance(a) ==
    OutputStage(a, SummedAreaTables(a, PadZeros(a, LoadWorkBuffers(a))))

----------------------------------------------------------------------------
(* init_compute_averages_and_variances, lines 659-707 *)

\* A faulty variant of the z extent of a block: the cap is missing
MaxBlkSizeZUncapped(size_z, have_z) == size_z

\* line 679: max_blk_size_z
MaxBlkSizeZ(size_z, have_z) == MIN(size_z, IF have_z THEN 16 ELSE 1)

\* A faulty variant of the number of blocks: the division rounds down
TaskCountFloor(size, max_blk_size) == size \div max_blk_size

\* lines 704-705: the number of blocks along an axis
TaskCount(size, max_blk_size) == (size + max_blk_size - 1) \div max_blk_size

init_compute_averages_and_variances(img, rgb_power, alpha_power, avg_var_kernel_radius, alpha_kernel_radius, swz) ==
    LET size_x == img.dim_x
        size_y == img.dim_y
        size_z == img.dim_z
        kernel_radius == MAX(avg_var_kernel_radius, alpha_kernel_radius)
        kerneldim == 2 * kernel_radius + 1
        have_z == size_z > 1
        max_blk_size_xy == IF have_z THEN 16 ELSE 32
        max_blk_size_z == MaxBlkSizeZ(size_z, have_z)
        max_padsize_xy == max_blk_size_xy + kerneldim
        max_padsize_z == max_blk_size_z + (IF have_z THEN kerneldim ELSE 0)
        z_tasks == TaskCount(size_z, max_blk_size_z)
        y_tasks == TaskCount(size_y, max_blk_size_xy)
    IN [ag |-> [arg |-> [size |-> <<0, 0, 0>>, offset |-> <<0, 0, 0>>,
                         img |-> img, rgb_power |-> rgb_power,
                         alpha_power |-> alpha_power, swz |-> swz,
                         have_z |-> have_z,
                         avg_var_kernel_radius |-> avg_var_kernel_radius,
                         alpha_kernel_radius |-> alpha_kernel_radius],
                img_size |-> <<size_x, size_y, size_z>>,
                blk_size |-> <<max_blk_size_xy, max_blk_size_xy, max_blk_size_z>>,
                work_memory_size |->
                    2 * max_padsize_xy * max_padsize_xy * max_padsize_z],
        ret |-> z_tasks * y_tasks]

----------------------------------------------------------------------------
(* ctx.manage_avg_var: the task manager *)

\* A faulty variant of the task manager: two units are reserved at a time
get_task_assignment_pair(cursor, total, granule) ==
    [base |-> IF cursor >= total THEN 0 ELSE cursor,
     count |-> IF cursor >= total THEN 0 ELSE MIN(2, total - cursor),
     start_count |-> IF cursor >= total THEN cursor
                     ELSE cursor + MIN(2, total - cursor)]

\* get_task_assignment(granule, count): reserves up to granule units at the
\* cursor; count is 0 when none is left
get_task_assignment(cursor, total, granule) ==
    LET cnt == IF cursor >= total THEN 0 ELSE MIN(granule, total - cursor)
    IN [base |-> IF cnt = 0 THEN 0 ELSE cursor, count |-> cnt,
        start_count |-> cursor + cnt]

\* A faulty variant of the task manager: the report is lost
complete_task_assignment_lost(done, cnt) == done

\* complete_task_assignment(count)
complete_task_assignment(done, cnt) == done + cnt

----------------------------------------------------------------------------
(* The inputs the model draws *)

DataTypes == {ASTCENC_TYPE_U8, ASTCENC_TYPE_F16, ASTCENC_TYPE_F32}
Patterns == {"flat", "checker", "ramp"}
Swizzles == {IdentitySwz,
             <<ASTCENC_SWZ_G, ASTCENC_SWZ_R, ASTCENC_SWZ_B, ASTCENC_SWZ_A>>,
             <<ASTCENC_SWZ_B, ASTCENC_SWZ_0, ASTCENC_SWZ_R, ASTCENC_SWZ_1>>}
PowerPairs == {<<1, 1>>, <<0, 0>>}
Radii == 0..MaxRadius

\* small images, whose statistics are checked pixel by pixel
PixSizes == {<<2, 2, 1>>, <<4, 4, 1>>, <<3, 1, 1>>, <<2, 2, 2>>, <<1, 2, 3>>}
\* images of more than one work unit or more than one tile per unit
SchedSizes == {<<1, 33, 1>>, <<33, 1, 1>>, <<2, 65, 1>>, <<1, 17, 2>>,
               <<1, 1, 17>>, <<1, 16, 17>>}

Image(sz, data_type, pattern) ==
    [dim_x |-> sz[1], dim_y |-> sz[2], dim_z |-> sz[3],
     data_type |-> data_type, pattern |-> pattern]

PixConfigs ==
    {[img |-> Image(sz, dt, pt), rgb_power |-> pw[1], alpha_power |-> pw[2],
      avg_var_kernel_radius |-> r1, alpha_kernel_radius |-> r2, swz |-> sw,
      threads |-> 1] :
        sz \in PixSizes, dt \in DataTypes, pt \in Patterns, pw \in PowerPairs,
        r1 \in Radii, r2 \in Radii, sw \in Swizzles}

SchedConfigs ==
    {[img |-> Image(sz, ASTCENC_TYPE_U8, "ramp"), rgb_power |-> 1,
      alpha_power |-> 1, avg_var_kernel_radius |-> 0,
      alpha_kernel_radius |-> 0, swz |-> IdentitySwz, threads |-> t] :
        sz \in SchedSizes, t \in 1..MaxWorkers}

\* runs with rgb_power /= alpha_power, on the images and swizzles without a
\* zero sample (the square of the floor 1e-6 of the power curve is beyond
\* the integers rationals are made of here)
MixedConfigs ==
    {[img |-> Image(sz, dt, pt), rgb_power |-> 1, alpha_power |-> 0,
      avg_var_kernel_radius |-> r1, alpha_kernel_radius |-> r2, swz |-> sw,
      threads |-> 1] :
        sz \in PixSizes, dt \in DataTypes, pt \in {"flat", "tone"},
        r1 \in Radii, r2 \in Radii,
        sw \in {IdentitySwz,
                <<ASTCENC_SWZ_G, ASTCENC_SWZ_R, ASTCENC_SWZ_B, ASTCENC_SWZ_A>>}}

Configs == PixConfigs \cup SchedConfigs \cup MixedConfigs

Workers == 1..cfg.threads
Unwritten == "unwritten"
OutRange == 0..(NumPixels(cfg.img) - 1)

----------------------------------------------------------------------------
(* compute_averages_and_variances, lines 608-656 *)

\* line 623
y_tasks == (ag.img_size[2] + ag.blk_size[2] - 1) \div ag.blk_size[2]

\* A faulty variant of the test of line 630: the break is missing
LoopNeverExits(cnt) == FALSE

\* line 630: if (!count) break
LoopExits(cnt) == cnt = 0

\* A faulty variant of the translation: the row after the unit's own
UnitTileNextRow(b) ==
    [size_b |-> MIN(ag.blk_size[3], ag.img_size[3]), offset_b |-> 0,
     size_g |-> MIN(ag.blk_size[2],
                    ag.img_size[2] - ((b + 1) % y_tasks) * ag.blk_size[2]),
     offset_g |-> ((b + 1) % y_tasks) * ag.blk_size[2]]

\* lines 636-643: the tile row of unit b.  b is unsigned: the subtraction of
\* line 637 wraps, and the conversion of the product to int gives back the
\* negative number.
UnitTile(b) ==
    LET step_y == ag.blk_size[2]
        step_z == ag.blk_size[3]
        z == (b \div y_tasks) * step_z
        y == (b - (z * y_tasks)) * step_y
    IN [size_b |-> MIN(step_z, ag.img_size[3] - z), offset_b |-> z,
        size_g |-> MIN(step_y, ag.img_size[2] - y), offset_g |-> y]

\* lines 647-648: arg as passed to compute_pixel_region_variance for the
\* x tile at xcur[w]
TileArg(w) ==
    LET x == xcur[w]
    IN [ag.arg EXCEPT
           !.size = <<MIN(ag.blk_size[1], ag.img_size[1] - x),
                      arg[w].size[2], arg[w].size[3]>>,
           !.offset = <<x, arg[w].offset[2], arg[w].offset[3]>>]

\* the iterations of the output loops whose store falls outside the arrays
OutOfBounds(a) ==
    {k \in 0..(LoopCount(a) - 1) : OutIndex(a, k) \notin OutRange}

SetMin(S) == CHOOSE m \in S : \A n \in S : m <= n
SetMax(S) == CHOOSE m \in S : \A n \in S : m >= n

\* lines 628-643: claim a unit; leave the loop when none is granted
Claim(w) ==
    /\ ~crashed
    /\ pc[w] = "claim"
    /\ LET r == get_task_assignment(start_count, task_count, 1)
       IN /\ start_count' = r.start_count
          /\ base' = [base EXCEPT ![w] = r.base]
          /\ count' = [count EXCEPT ![w] = r.count]
          /\ IF LoopExits(r.count)
             THEN /\ pc' = [pc EXCEPT ![w] = "done"]
                  /\ UNCHANGED <<arg, xcur, grants>>
             ELSE LET t == UnitTile(r.base)
                  IN /\ arg' = [arg EXCEPT ![w] =
                                   [size |-> <<0, t.size_g, t.size_b>>,
                                    offset |-> <<0, t.offset_g, t.offset_b>>]]
                     /\ xcur' = [xcur EXCEPT ![w] = 0]
                     /\ grants' = grants \cup
                            {[w |-> w, base |-> r.base,
                              n |-> Cardinality(grants) + 1]}
                     /\ pc' = [pc EXCEPT ![w] =
                                  IF 0 < ag.img_size[1] THEN "tile"
                                  ELSE "complete"]
    /\ UNCHANGED <<cfg, ag, task_count, done_count, input_averages,
                   input_variances, input_alpha_averages, writes, writer,
                   tiles, crashed, oob, harnessVars>>

\* the output arrays after the first `limit` stores of st, the stores of a
\* tile computed by worker w
TileStores(w, st, limit) ==
    LET n == NumPixels(cfg.img)
        hit == Array(n, [j \in 1..n |->
                         {k \in 1..limit : st[k].out_index = j - 1}])
    IN IF Done(st) /\ Done(hit) THEN
       [input_averages |-> Array(n, [j \in 1..n |->
              IF hit[j] = {} THEN input_averages[j]
              ELSE st[SetMax(hit[j])].avg]),
        input_variances |-> Array(n, [j \in 1..n |->
              IF hit[j] = {} THEN input_variances[j]
              ELSE st[SetMax(hit[j])].variance]),
        input_alpha_averages |-> Array(n, [j \in 1..n |->
              IF hit[j] = {} THEN input_alpha_averages[j]
              ELSE st[SetMax(hit[j])].alpha]),
        writes |-> Array(n, [j \in 1..n |-> writes[j] + Cardinality(hit[j])]),
        writer |-> Array(n, [j \in 1..n |->
              IF hit[j] = {} THEN writer[j] ELSE writer[j] \cup {w}])]
       ELSE <<>>

StoreOutputs(w, a, limit) ==
    \E r \in {TileStores(w, compute_pixel_region_variance(a), limit)} :
        /\ input_averages' = r.input_averages
        /\ input_variances' = r.input_variances
        /\ input_alpha_averages' = r.input_alpha_averages
        /\ writes' = r.writes
        /\ writer' = r.writer

\* the tile handed to compute_pixel_region_variance
NoteTile(w, a) ==
    tiles' = tiles \cup {[base |-> base[w], offset |-> a.offset,
                          size |-> a.size]}

\* lines 645-650: one iteration of the for loop over x, the call returning.
\* A store outside the arrays that does not fault lands in other memory.
Tile(w) ==
    /\ ~crashed
    /\ pc[w] = "tile"
    /\ \E a \in {TileArg(w)}, x \in {xcur[w] + ag.blk_size[1]} :
          /\ StoreOutputs(w, a, LoopCount(a))
          /\ NoteTile(w, a)
          /\ oob' = (oob \/ OutOfBounds(a) /= {})
          /\ xcur' = [xcur EXCEPT ![w] = x]
          /\ pc' = [pc EXCEPT ![w] =
                       IF x < ag.img_size[1] THEN "tile" ELSE "complete"]
    /\ UNCHANGED <<cfg, ag, task_count, start_count, done_count, base, count,
                   arg, grants, crashed, harnessVars>>

\* line 334 in a build with assertions: the assert fails while the tile is
\* sampled, the process aborts before the tile stores anything
TileAbort(w) ==
    /\ ~crashed
    /\ pc[w] = "tile"
    /\ ~SampleAssertsHold(TileArg(w))
    /\ NoteTile(w, TileArg(w))
    /\ crashed' = TRUE
    /\ UNCHANGED <<cfg, ag, task_count, start_count, done_count, pc, base,
                   count, arg, xcur, input_averages, input_variances,
                   input_alpha_averages, writes, writer, grants, oob,
                   harnessVars>>

\* the first store outside the arrays faults: the stores before it are
\* done, the process is terminated
TileFault(w) ==
    /\ ~crashed
    /\ pc[w] = "tile"
    /\ \E a \in {TileArg(w)} :
          /\ OutOfBounds(a) /= {}
          /\ StoreOutputs(w, a, SetMin(OutOfBounds(a)))
          /\ NoteTile(w, a)
    /\ crashed' = TRUE
    /\ oob' = TRUE
    /\ UNCHANGED <<cfg, ag, task_count, start_count, done_count, pc, base,
                   count, arg, xcur, grants, harnessVars>>

\* line 652
Complete(w) ==
    /\ ~crashed
    /\ pc[w] = "complete"
    /\ done_count' = complete_task_assignment(done_count, count[w])
    /\ pc' = [pc EXCEPT ![w] = "claim"]
    /\ UNCHANGED <<cfg, ag, task_count, start_count, base, count, arg, xcur,
                   input_averages, input_variances, input_alpha_averages,
                   writes, writer, grants, tiles, crashed, oob, harnessVars>>

BKIdle ==
    /\ bk_d = <<>> /\ bk_in = <<>> /\ bk_p = 0 /\ bk_items = 0
    /\ bk_stride = 1 /\ bk_pc = "idle"

\* the state when the workers are launched: init_compute_averages_and_variances
\* has run and its result initialised the task manager
InitRun(c) ==
    LET r == init_compute_averages_and_variances(
                 c.img, c.rgb_power, c.alpha_power, c.avg_var_kernel_radius,
                 c.alpha_kernel_radius, c.swz)
        n == NumPixels(c.img)
    IN /\ cfg = c
       /\ ag = r.ag
       /\ task_count = r.ret
       /\ start_count = 0
       /\ done_count = 0
       /\ pc = [w \in 1..c.threads |-> "claim"]
       /\ base = [w \in 1..c.threads |-> 0]
       /\ count = [w \in 1..c.threads |-> 0]
       /\ arg = [w \in 1..c.threads |-> [size |-> <<0, 0, 0>>,
                                         offset |-> <<0, 0, 0>>]]
       /\ xcur = [w \in 1..c.threads |-> 0]
       /\ input_averages = Array(n, [j \in 1..n |-> Unwritten])
       /\ input_variances = Array(n, [j \in 1..n |-> Unwritten])
       /\ input_alpha_averages = Array(n, [j \in 1..n |-> Unwritten])
       /\ writes = Array(n, [j \in 1..n |-> 0])
       /\ writer = Array(n, [j \in 1..n |-> {}])
       /\ grants = {}
       /\ tiles = {}
       /\ crashed = FALSE
       /\ oob = FALSE

TLIdle ==
    /\ tl_arg = <<>> /\ tl_pad = <<>> /\ tl_sat = <<>> /\ tl_out = <<>>
    /\ tl_swap = <<>> /\ tl_out2 = <<>> /\ tl_pc = "idle"

PHIdle == ph_arg = <<>> /\ ph_buf = <<>> /\ ph_out = <<>> /\ ph_step = "idle"

\* the values of addr: nullptr, MAP_FAILED ((void *)-1, which is not null),
\* and the addresses mmap can return
MAP_NULL == "nullptr"
MAP_FAILED == "MAP_FAILED"
MmAddrs == {"page_a", "page_b"}

\* a default-constructed MmapHelper (the member initialisers of the header)
MMIdle ==
    /\ mm_addr = MAP_NULL /\ mm_length = 0 /\ mm_ret = "none"
    /\ mm_op = "none" /\ mm_live = {} /\ mm_unmapped = "none"

Init == (\E c \in Configs : InitRun(c)) /\ BKIdle /\ TLIdle /\ PHIdle /\ MMIdle

DoClaim == \E w \in Workers : Claim(w)
DoTile == \E w \in Workers : Tile(w)
DoTileAbort == \E w \in Workers : TileAbort(w)
DoTileFault == \E w \in Workers : TileFault(w)
DoComplete == \E w \in Workers : Complete(w)

Next == DoClaim \/ DoTile \/ DoTileAbort \/ DoTileFault \/ DoComplete

Spec == Init /\ [][Next]_vars

----------------------------------------------------------------------------
(* brent_kung_prefix_sum on its own: the arguments are drawn, the call is   *)
(* made                                                                     *)

\* the items handed to the call: item i of the family named kind
BKItem(kind, i) ==
    CASE kind = "bits" -> <<Rat(Pow2(i)), ROne, Rat(i), <<i + 1, 3>>>>
      [] kind = "signed" -> <<Rat(-i), <<1, 2>>, Rat(i * i), Rat(3 - 2 * i)>>

\* the cells between the items hold this value
BKFiller == F4Splat(Rat(-1000))

\* the memory around d: items cells `stride` apart from cell p on
BKMemory(kind, p, items, stride) ==
    LET n == p + MAX(items, 1) * stride
    IN Array(n, [j \in 1..n |->
                    IF j - 1 >= p /\ (j - 1 - p) % stride = 0
                       /\ (j - 1 - p) \div stride < items
                    THEN BKItem(kind, (j - 1 - p) \div stride)
                    ELSE BKFiller])

IdleConfig ==
    [img |-> Image(<<1, 1, 1>>, ASTCENC_TYPE_U8, "flat"), rgb_power |-> 1,
     alpha_power |-> 1, avg_var_kernel_radius |-> 0,
     alpha_kernel_radius |-> 0, swz |-> IdentitySwz, threads |-> 1]

InitPrefix ==
    /\ InitRun(IdleConfig)
    /\ bk_pc = "ready"
    /\ bk_items \in 0..MaxItems
    /\ bk_stride \in 1..MaxStride
    /\ bk_p \in 0..1
    /\ \E kind \in {"bits", "signed"} :
           bk_in = BKMemory(kind, bk_p, bk_items, bk_stride)
    /\ bk_d = bk_in
    /\ TLIdle /\ PHIdle /\ MMIdle

PrefixSum ==
    /\ bk_pc = "ready"
    /\ bk_d' = brent_kung_prefix_sum(bk_d, bk_p, bk_items, bk_stride)
    /\ bk_pc' = "done"
    /\ UNCHANGED <<schedVars, bk_in, bk_p, bk_items, bk_stride, tlVars, phVars,
                   mmVars>>

NextPrefix == PrefixSum

SpecPrefix == InitPrefix /\ [][NextPrefix]_vars

----------------------------------------------------------------------------
(* compute_pixel_region_variance on its own: the arguments are drawn and    *)
(* the call is made (SpecTile); the call is made again with two entries of  *)
(* the swizzle exchanged (SpecSwizzle)                                      *)

\* the 4-vector s with the entries of output channels i and j exchanged
SwapEntries(s, i, j) ==
    Array(4, [k \in 1..4 |-> IF k = i THEN s[j] ELSE IF k = j THEN s[i]
                             ELSE s[k]])

\* the runs whose image is one tile
TileConfigs ==
    {c \in PixConfigs :
        /\ c.img.pattern = "ramp" /\ c.rgb_power = 1
        /\ c.swz \in {IdentitySwz, <<ASTCENC_SWZ_B, ASTCENC_SWZ_0,
                                     ASTCENC_SWZ_R, ASTCENC_SWZ_1>>}}

\* the runs whose swizzle is exchanged
SwizzleSizes == {<<2, 2, 1>>, <<3, 1, 1>>, <<1, 2, 3>>}
SwizzleConfigs ==
    {c \in PixConfigs :
        /\ c.img.pattern = "ramp" /\ c.rgb_power = 1
        /\ <<c.img.dim_x, c.img.dim_y, c.img.dim_z>> \in SwizzleSizes}
    \cup {c \in MixedConfigs :
        /\ c.img.pattern = "tone"
        /\ <<c.img.dim_x, c.img.dim_y, c.img.dim_z>> \in SwizzleSizes}

\* the tile that is the whole image
WholeImage(img) ==
    [offset |-> <<0, 0, 0>>, size |-> <<img.dim_x, img.dim_y, img.dim_z>>]

\* the tiles drawn: the whole image, and the tile from its middle to its end
TileBoxes(img) ==
    LET dims == <<img.dim_x, img.dim_y, img.dim_z>>
        mid == [k \in 1..3 |-> dims[k] \div 2]
    IN {WholeImage(img),
        [offset |-> <<mid[1], mid[2], mid[3]>>,
         size |-> <<dims[1] - mid[1], dims[2] - mid[2], dims[3] - mid[3]>>]}

\* the state before the call on tile t of the image of c
InitCall(c, t) ==
    /\ InitRun(c)
    /\ BKIdle
    /\ tl_arg = [ag.arg EXCEPT !.size = t.size, !.offset = t.offset]
    /\ tl_pad = <<>> /\ tl_sat = <<>> /\ tl_out = <<>>
    /\ tl_swap = <<>> /\ tl_out2 = <<>> /\ tl_pc = "ready"
    /\ PHIdle /\ MMIdle

InitTile == \E c \in TileConfigs : \E t \in TileBoxes(c.img) : InitCall(c, t)

InitSwizzle == \E c \in SwizzleConfigs : InitCall(c, WholeImage(c.img))

\* the call, its work buffer kept as it is after the layer of zeros and
\* after the prefix sums
TileCall ==
    /\ tl_pc = "ready"
    /\ \E pad \in {PadZeros(tl_arg, LoadWorkBuffers(tl_arg))} :
          \E sat \in {SummedAreaTables(tl_arg, pad)} :
              /\ tl_pad' = pad
              /\ tl_sat' = sat
              /\ tl_out' = OutputStage(tl_arg, sat)
    /\ tl_pc' = "called"
    /\ UNCHANGED <<schedVars, bkVars, tl_arg, tl_swap, tl_out2, phVars, mmVars>>

\* the call on the same tile, the entries of the output channels i and j of
\* the swizzle exchanged
SwappedCall ==
    /\ tl_pc = "called"
    /\ \E i, j \in 1..4 :
           /\ i < j
           /\ tl_swap' = <<i, j>>
           /\ tl_out2' = compute_pixel_region_variance(
                             [tl_arg EXCEPT !.swz = SwapEntries(tl_arg.swz, i, j)])
    /\ tl_pc' = "swapped"
    /\ UNCHANGED <<schedVars, bkVars, tl_arg, tl_pad, tl_sat, tl_out, phVars,
                   mmVars>>

NextTile == TileCall

SpecTile == InitTile /\ [][NextTile]_vars

NextSwizzle == TileCall \/ SwappedCall

SpecSwizzle == InitSwizzle /\ [][NextSwizzle]_vars

----------------------------------------------------------------------------
(* compute_pixel_region_variance phase by phase, inside the loop of a       *)
(* worker: each loop nest of the function is a step, each iteration of the  *)
(* output loops is a step                                                   *)

\* A faulty variant of the order of the phases: the stores begin after the
\* sums along y
PhaseAfterStoresEarly(step) ==
    CASE step = "load" -> "pad"
      [] step = "pad" -> "sum_x"
      [] step = "sum_x" -> "sum_y"
      [] step = "sum_y" -> "store"
      [] step = "sum_z" -> "store"

\* the loop nest that follows the loop nest `step` in the function
PhaseAfter(step) ==
    CASE step = "load" -> "pad"
      [] step = "pad" -> "sum_x"
      [] step = "sum_x" -> "sum_y"
      [] step = "sum_y" -> "sum_z"
      [] step = "sum_z" -> "store"

PhaseSizes == {<<33, 1, 1>>, <<3, 2, 1>>, <<17, 1, 2>>, <<2, 2, 2>>}

\* the runs followed phase by phase: one worker
PhaseConfigs ==
    {[img |-> Image(sz, dt, "ramp"), rgb_power |-> 1, alpha_power |-> 1,
      avg_var_kernel_radius |-> r1, alpha_kernel_radius |-> r2,
      swz |-> IdentitySwz, threads |-> 1] :
        sz \in PhaseSizes, dt \in {ASTCENC_TYPE_U8, ASTCENC_TYPE_F16},
        r1 \in Radii, r2 \in Radii}

\* the work memory is allocated, its cells hold no value yet
InitPhases ==
    /\ \E c \in PhaseConfigs : InitRun(c)
    /\ BKIdle /\ TLIdle /\ MMIdle
    /\ ph_arg = <<>> /\ ph_buf = <<>> /\ ph_out = <<>> /\ ph_step = "load"

\* lines 113-378: the call begins, the load loops run
PhLoad ==
    /\ pc[1] = "tile" /\ ph_step = "load"
    /\ ph_arg' = TileArg(1)
    /\ ph_buf' = LoadWorkBuffers(TileArg(1))
    /\ ph_out' = <<>>
    /\ ph_step' = PhaseAfter("load")
    /\ UNCHANGED <<schedVars, bkVars, tlVars, mmVars>>

\* lines 380-407
PhPad ==
    /\ ph_step = "pad"
    /\ ph_buf' = PadZeros(ph_arg, ph_buf)
    /\ ph_step' = PhaseAfter("pad")
    /\ UNCHANGED <<schedVars, bkVars, tlVars, mmVars, ph_arg, ph_out>>

\* lines 411-418
PhSumX ==
    /\ ph_step = "sum_x"
    /\ ph_buf' = [p \in {"varbuf1", "varbuf2"} |-> SumAlongX(ph_arg, ph_buf[p])]
    /\ ph_step' = PhaseAfter("sum_x")
    /\ UNCHANGED <<schedVars, bkVars, tlVars, mmVars, ph_arg, ph_out>>

\* lines 420-427
PhSumY ==
    /\ ph_step = "sum_y"
    /\ ph_buf' = [p \in {"varbuf1", "varbuf2"} |-> SumAlongY(ph_arg, ph_buf[p])]
    /\ ph_step' = PhaseAfter("sum_y")
    /\ UNCHANGED <<schedVars, bkVars, tlVars, mmVars, ph_arg, ph_out>>

\* lines 429-439
PhSumZ ==
    /\ ph_step = "sum_z"
    /\ ph_buf' = [p \in {"varbuf1", "varbuf2"} |-> SumAlongZ(ph_arg, ph_buf[p])]
    /\ ph_step' = PhaseAfter("sum_z")
    /\ UNCHANGED <<schedVars, bkVars, tlVars, mmVars, ph_arg, ph_out>>

\* lines 472-605: one iteration of the output loops; after the last one the
\* call returns into the for loop of lines 645-650
PhStore ==
    /\ ph_step = "store"
    /\ \E st \in {WindowStats(ph_arg, ph_buf, Len(ph_out))} :
          /\ ph_out' = Append(ph_out, st)
          /\ input_averages' =
                 [input_averages EXCEPT ![st.out_index + 1] = st.avg]
          /\ input_variances' =
                 [input_variances EXCEPT ![st.out_index + 1] = st.variance]
          /\ input_alpha_averages' =
                 [input_alpha_averages EXCEPT ![st.out_index + 1] = st.alpha]
          /\ writes' = [writes EXCEPT ![st.out_index + 1] = @ + 1]
          /\ writer' = [writer EXCEPT ![st.out_index + 1] = @ \cup {1}]
    /\ IF Len(ph_out) + 1 < LoopCount(ph_arg)
       THEN UNCHANGED <<ph_step, xcur, pc, tiles>>
       ELSE /\ ph_step' = "load"
            /\ NoteTile(1, ph_arg)
            /\ xcur' = [xcur EXCEPT ![1] = @ + ag.blk_size[1]]
            /\ pc' = [pc EXCEPT ![1] =
                         IF xcur[1] + ag.blk_size[1] < ag.img_size[1]
                         THEN "tile" ELSE "complete"]
    /\ UNCHANGED <<cfg, ag, task_count, start_count, done_count, base, count,
                   arg, grants, crashed, oob, bkVars, tlVars, mmVars, ph_arg,
                   ph_buf>>

NextPhases ==
    DoClaim \/ PhLoad \/ PhPad \/ PhSumX \/ PhSumY \/ PhSumZ \/ PhStore
        \/ DoComplete

SpecPhases == InitPhases /\ [][NextPhases]_vars

----------------------------------------------------------------------------
(* MmapHelper (KramMmapHelper.cpp): one helper, opened and closed in any    *)
(* order; the file system and mmap answer as they please                    *)

InitMmap == InitRun(IdleConfig) /\ BKIdle /\ TLIdle /\ PHIdle /\ MMIdle

\* MmapHelper::open, lines 33-77.  `answer` is how far the call gets: fopen
\* fails, fstat fails, mmap fails, or mmap returns the address a.  mmap of
\* length 0 fails.
MmOpen ==
    /\ mm_op /= "~"
    /\ mm_op' = "open"
    /\ IF mm_addr /= MAP_NULL
       THEN mm_ret' = "false" /\ UNCHANGED <<mm_addr, mm_length, mm_live>>
       ELSE \E answer \in {"fopen fails", "fstat fails", "mmap fails", "mapped"},
               size \in 0..MaxLength, a \in MmAddrs :
                CASE answer \in {"fopen fails", "fstat fails"} ->
                         /\ mm_ret' = "false"
                         /\ UNCHANGED <<mm_addr, mm_length, mm_live>>
                  [] answer = "mmap fails" \/ (answer = "mapped" /\ size = 0) ->
                         /\ mm_length' = size
                         /\ mm_addr' = MAP_FAILED
                         /\ mm_ret' = "false"
                         /\ UNCHANGED mm_live
                  [] OTHER ->
                         /\ mm_length' = size
                         /\ mm_addr' = a
                         /\ mm_live' = mm_live \cup {a}
                         /\ mm_ret' = "true"
    /\ UNCHANGED <<schedVars, bkVars, tlVars, phVars, mm_unmapped>>

\* what close does to the helper, lines 79-85
CloseHelper ==
    IF mm_addr /= MAP_NULL
    THEN /\ mm_unmapped' = mm_addr
         /\ mm_live' = mm_live \ {mm_addr}
         /\ mm_addr' = MAP_NULL
    ELSE /\ mm_unmapped' = "none"
         /\ UNCHANGED <<mm_addr, mm_live>>

\* MmapHelper::close, lines 79-85
MmClose ==
    /\ mm_op /= "~"
    /\ mm_op' = "close"
    /\ CloseHelper
    /\ UNCHANGED <<schedVars, bkVars, tlVars, phVars, mm_length, mm_ret>>

\* MmapHelper::~MmapHelper, line 31: close, and the helper is gone
MmDestroy ==
    /\ mm_op /= "~"
    /\ mm_op' = "~"
    /\ CloseHelper
    /\ UNCHANGED <<schedVars, bkVars, tlVars, phVars, mm_length, mm_ret>>

NextMmap == MmOpen \/ MmClose \/ MmDestroy

SpecMmap == InitMmap /\ [][NextMmap]_vars

----------------------------------------------------------------------------
(* The tile geometry on its own: an image size and radii are drawn,         *)
(* init_compute_averages_and_variances is called, and units are translated  *)
(* into tile rows as lines 636-643 do                                       *)

\* the dimensions drawn: 1, 2, and those around the multiples of 16
GeomDims ==
    {1, 2} \cup {16 * k + e : k \in 1..(2 * MaxBlocks), e \in {-1, 0, 1}}

GeomConfigs ==
    {[img |-> Image(<<x, y, z>>, ASTCENC_TYPE_U8, "ramp"), rgb_power |-> 1,
      alpha_power |-> 1, avg_var_kernel_radius |-> r1,
      alpha_kernel_radius |-> r2, swz |-> IdentitySwz, threads |-> 1] :
        x \in {1, 17, 33}, y \in GeomDims, z \in GeomDims,
        r1 \in Radii, r2 \in Radii}

\* avg_var_args before init_compute_averages_and_variances has filled it
UnsetArgs ==
    [arg |-> <<>>, img_size |-> <<0, 0, 0>>, blk_size |-> <<0, 0, 0>>,
     work_memory_size |-> 0]

\* the state before init_compute_averages_and_variances is called
GeomStart ==
    /\ ag = UnsetArgs
    /\ task_count = 0 /\ start_count = 0 /\ done_count = 0
    /\ pc = <<"setup">> /\ base = <<0>> /\ count = <<0>>
    /\ arg = <<[size |-> <<0, 0, 0>>, offset |-> <<0, 0, 0>>]>>
    /\ xcur = <<0>>
    /\ input_averages = <<>> /\ input_variances = <<>>
    /\ input_alpha_averages = <<>> /\ writes = <<>> /\ writer = <<>>
    /\ grants = {} /\ tiles = {} /\ crashed = FALSE /\ oob = FALSE
    /\ BKIdle /\ TLIdle /\ PHIdle /\ MMIdle

InitGeom == cfg \in GeomConfigs /\ GeomStart

\* the call of init_compute_averages_and_variances; its result becomes the
\* number of units of the task manager
Setup ==
    /\ pc[1] = "setup"
    /\ \E r \in {init_compute_averages_and_variances(
                     cfg.img, cfg.rgb_power, cfg.alpha_power,
                     cfg.avg_var_kernel_radius, cfg.alpha_kernel_radius,
                     cfg.swz)} :
           ag' = r.ag /\ task_count' = r.ret
    /\ pc' = <<"translate">>
    /\ UNCHANGED <<cfg, start_count, done_count, base, count, arg, xcur,
                   input_averages, input_variances, input_alpha_averages,
                   writes, writer, grants, tiles, crashed, oob, harnessVars>>

\* lines 636-643 for a unit b of the run
Translate ==
    /\ pc[1] = "translate"
    /\ \E b \in 0..(task_count - 1) :
           /\ base' = <<b>>
           /\ count' = <<1>>
           /\ arg' = <<[size |-> <<0, UnitTile(b).size_g, UnitTile(b).size_b>>,
                        offset |-> <<0, UnitTile(b).offset_g,
                                     UnitTile(b).offset_b>>]>>
    /\ UNCHANGED <<cfg, ag, task_count, start_count, done_count, pc, xcur,
                   input_averages, input_variances, input_alpha_averages,
                   writes, writer, grants, tiles, crashed, oob, harnessVars>>

NextGeom == Setup \/ Translate

SpecGeom == InitGeom /\ [][NextGeom]_vars

----------------------------------------------------------------------------
(* The tiles of a run, one by one: after the translation of a unit, the for *)
(* loop of lines 645-650 enters one of the tiles of its row                 *)

AccessConfigs ==
    {[img |-> Image(<<x, y, z>>, ASTCENC_TYPE_U8, "ramp"), rgb_power |-> 1,
      alpha_power |-> 1, avg_var_kernel_radius |-> r1,
      alpha_kernel_radius |-> r2, swz |-> IdentitySwz, threads |-> 1] :
        x \in {2, 33}, y \in {1, 17, 33}, z \in {1, 2, 17},
        r1 \in Radii, r2 \in Radii}

InitAccess == cfg \in AccessConfigs /\ GeomStart

\* lines 645-648: the loop variable x at the start of an iteration
EnterTile ==
    /\ pc[1] = "translate" /\ count[1] = 1
    /\ \E k \in 0..((ag.img_size[1] - 1) \div ag.blk_size[1]) :
           xcur' = <<k * ag.blk_size[1]>>
    /\ pc' = <<"tile">>
    /\ UNCHANGED <<cfg, ag, task_count, start_count, done_count, base, count,
                   arg, input_averages, input_variances, input_alpha_averages,
                   writes, writer, grants, tiles, crashed, oob, harnessVars>>

NextAccess == Setup \/ Translate \/ EnterTile

SpecAccess == InitAccess /\ [][NextAccess]_vars

----------------------------------------------------------------------------
(* Properties: the scheduler                                                *)

NumOut == NumPixels(cfg.img)
AllLeft == \A w \in Workers : pc[w] = "done"

\* C1: when all workers have run compute_averages_and_variances to
\* completion, every output index in [0, dim_x * dim_y * dim_z) has been
\* written exactly once, volumetric images deeper than the z tile cap
\* included.
C1_EveryIndexWrittenOnce ==
    AllLeft => \A i \in 1..NumOut : writes[i] = 1

\* C2: no work unit is granted more than once, to the same worker or to
\* different workers, whatever the interleaving and whether or not the
\* worker that holds a unit finishes it.
C2_NoUnitGrantedTwice ==
    \A g, h \in grants : g.base = h.base => g = h

\* C2 happens: units went to two workers, one worker was granted two units,
\* and a worker still holds its unit, unfinished, when another has left
C2_GrantsToTwoWorkers ==
    /\ \E g, h \in grants : g.w /= h.w
    /\ \E g, h \in grants : g.w = h.w /\ g.base /= h.base
    /\ \E w, v \in Workers : pc[w] = "tile" /\ pc[v] = "done"

\* a step of worker w is possible: the process runs and w is in its loop
CanStep(w) == ~crashed /\ pc[w] \in {"claim", "tile", "complete"}

\* C3: every worker leaves its loop under fair scheduling: in no reachable
\* state is a worker still inside its loop with no step left to take.
C3_EveryWorkerLeaves ==
    \A w \in Workers : pc[w] = "done" \/ CanStep(w)

\* C4: in every reachable state of a run with two or more workers, no
\* output index has been written by two different workers.
C4_WritersDisjoint ==
    cfg.threads >= 2 => \A i \in 1..NumOut : Cardinality(writer[i]) <= 1

----------------------------------------------------------------------------
(* Properties: the prefix sum                                               *)

\* the serial running sum v[0] + ... + v[i] of the items before the call
RECURSIVE RunningSum(_)
RunningSum(i) ==
    IF i = 0 THEN Ld(bk_in, bk_p)
    ELSE F4Add(RunningSum(i - 1), Ld(bk_in, bk_p + i * bk_stride))

\* C5: after brent_kung_prefix_sum the item at position i * stride is
\* v[0] + ... + v[i], for every item count (power of two or not) and every
\* stride; for fewer than two items the array is unchanged.
C5_PrefixSums ==
    bk_pc = "done" =>
        /\ \A i \in 0..(bk_items - 1) :
               F4Norm(Ld(bk_d, bk_p + i * bk_stride)) = F4Norm(RunningSum(i))
        /\ bk_items < 2 => bk_d = bk_in

\* C5 happens: a call on a strided array whose length is no power of two
C5_OddLengthSummed ==
    /\ bk_pc = "done" /\ bk_items = 7 /\ bk_stride = 3 /\ bk_p = 1
    /\ bk_d /= bk_in

----------------------------------------------------------------------------
(* Properties: the statistics.  The reference values are computed from the  *)
(* image itself, pixel by pixel.                                            *)

\* the pixel (x, y, z) of the image: decoded, swizzled, raised to the powers
Decoded(c, x, y, z) ==
    LET float(raw) ==
            CASE c.img.data_type = ASTCENC_TYPE_U8 ->
                     Array(4, [k \in 1..4 |-> RNorm(<<raw[k], 255>>)])
              [] c.img.data_type = ASTCENC_TYPE_F16 ->
                     Array(4, [k \in 1..4 |-> sf16_to_float(raw[k])])
              [] OTHER -> raw
        swizzled(f) == SwizzleTable(f, RZero, ROne, c.swz)
    IN ApplyPowers(c, swizzled(float(ImgPixel3(c.img, z, y, x))))

\* the coordinates of output index i
PixelOf(c, i) ==
    [x |-> i % c.img.dim_x, y |-> (i \div c.img.dim_x) % c.img.dim_y,
     z |-> i \div (c.img.dim_x * c.img.dim_y)]

\* f[lo] + ... + f[hi]
RECURSIVE RSum(_, _, _)
RSum(f, lo, hi) == IF lo > hi THEN RZero ELSE RAdd(RSum(f, lo, hi - 1), f[hi])

\* the sum of channel k of the pixels (squared when sq) over the window of
\* half-width r centred on output index i, positions outside the image
\* replaced by the nearest pixel of the image
WindowSum(c, i, r, k, sq) ==
    LET q == PixelOf(c, i)
        rz == IF c.img.dim_z > 1 THEN r ELSE 0
        v(x, y, z) == Decoded(c, clamp(x, 0, c.img.dim_x - 1),
                              clamp(y, 0, c.img.dim_y - 1),
                              clamp(z, 0, c.img.dim_z - 1))[k]
        term(e) == IF sq THEN RMul(e, e) ELSE e
        xs(y, z) == RSum([x \in (q.x - r)..(q.x + r) |-> term(v(x, y, z))],
                         q.x - r, q.x + r)
        ys(z) == RSum([y \in (q.y - r)..(q.y + r) |-> xs(y, z)],
                      q.y - r, q.y + r)
    IN RSum([z \in (q.z - rz)..(q.z + rz) |-> ys(z)], q.z - rz, q.z + rz)

\* the number of samples of the window of half-width r
WindowCount(c, r) ==
    IF c.img.dim_z > 1 THEN (2 * r + 1) * (2 * r + 1) * (2 * r + 1)
    ELSE (2 * r + 1) * (2 * r + 1)

Written(i) == writes[i] > 0
Flat == cfg.img.dim_z = 1

\* C6: averages[p] is the sum of the sampled values over the window of
\* half-width statsRadius centred on p, divided by the number N of samples
\* of that window, whether or not alphaRadius equals statsRadius.  (Stated
\* on the 2D images.)
C6_AveragesOverStatsWindow ==
    Flat =>
        \A i \in 1..NumOut : Written(i) =>
            \A k \in 1..4 :
                REq(input_averages[i][k],
                    RMul(WindowSum(cfg, i - 1, cfg.avg_var_kernel_radius, k,
                                   FALSE),
                         <<1, WindowCount(cfg, cfg.avg_var_kernel_radius)>>))

\* C7: alphaAverages[p] is the sum of the sampled alpha over the window of
\* half-width alphaRadius centred on p, divided by the number of samples of
\* that window, in 2D and in volumetric images.
C7_AlphaOverAlphaWindow ==
    \A i \in 1..NumOut : Written(i) =>
        REq(input_alpha_averages[i],
            RMul(WindowSum(cfg, i - 1, cfg.alpha_kernel_radius, 4, FALSE),
                 <<1, WindowCount(cfg, cfg.alpha_kernel_radius)>>))

\* C8: for statsRadius >= 1, N * (N - 1) * variances[p] = N * sumSq - sum^2
\* in each channel, sum and sumSq taken over the N samples of the stats
\* window of p, and the variance is never negative.  (Stated on the 2D
\* images.)
C8_UnbiasedVariance ==
    (Flat /\ cfg.avg_var_kernel_radius >= 1) =>
        \A i \in 1..NumOut : Written(i) =>
            \A k \in 1..4 :
                LET N == WindowCount(cfg, cfg.avg_var_kernel_radius)
                    sum == WindowSum(cfg, i - 1, cfg.avg_var_kernel_radius, k,
                                     FALSE)
                    sumSq == WindowSum(cfg, i - 1, cfg.avg_var_kernel_radius,
                                       k, TRUE)
                IN /\ REq(RMul(Rat(N * (N - 1)), input_variances[i][k]),
                          RSub(RMul(Rat(N), sumSq), RMul(sum, sum)))
                   /\ ~RLess(input_variances[i][k], RZero)

\* C9: with statsRadius = 0 every channel of variances[p] is 0, whatever
\* alphaRadius is.  (Stated on the 2D images.)
C9_ZeroVarianceAtRadiusZero ==
    (Flat /\ cfg.avg_var_kernel_radius = 0) =>
        \A i \in 1..NumOut : Written(i) =>
            \A k \in 1..4 : REq(input_variances[i][k], RZero)

\* C10: with both radii 0, the identity swizzle and both powers 1,
\* averages[p] is the decoded image value at p, alphaAverages[p] its alpha
\* and variances[p] is 0, for every pixel of every image.
C10_RadiusZeroIsIdentity ==
    (/\ cfg.avg_var_kernel_radius = 0 /\ cfg.alpha_kernel_radius = 0
     /\ cfg.swz = IdentitySwz /\ cfg.rgb_power = 1 /\ cfg.alpha_power = 1) =>
        \A i \in 1..NumOut : Written(i) =>
            LET q == PixelOf(cfg, i - 1)
                v == Decoded(cfg, q.x, q.y, q.z)
            IN /\ input_averages[i] = F4Norm(v)
               /\ input_alpha_averages[i] = RNorm(v[4])
               /\ \A k \in 1..4 : REq(input_variances[i][k], RZero)

\* the radius r is not larger than any dimension of the image it is used on
RadiusFits(c, r) ==
    /\ r <= c.img.dim_x /\ r <= c.img.dim_y
    /\ (c.img.dim_z > 1 => r <= c.img.dim_z)

\* C11: on an image whose pixels all have the same colour, for every
\* statsRadius and alphaRadius not larger than the image dimension (chosen
\* independently), averages[p] is that colour and variances[p] is 0 at
\* every pixel, boundary pixels included.
C11_ConstantImageInvariant ==
    (/\ cfg.img.pattern = "flat"
     /\ RadiusFits(cfg, cfg.avg_var_kernel_radius)
     /\ RadiusFits(cfg, cfg.alpha_kernel_radius)) =>
        \A i \in 1..NumOut : Written(i) =>
            /\ input_averages[i] = F4Norm(Decoded(cfg, 0, 0, 0))
            /\ \A k \in 1..4 : REq(input_variances[i][k], RZero)

----------------------------------------------------------------------------
(* Properties: the swizzle                                                  *)

\* the second call stored, at every pixel, the averages and variances of
\* the first call with the channels tl_swap exchanged
StoresSwapped ==
    /\ Len(tl_out2) = Len(tl_out)
    /\ \A k \in 1..Len(tl_out) :
           /\ tl_out2[k].out_index = tl_out[k].out_index
           /\ tl_out2[k].avg = SwapEntries(tl_out[k].avg, tl_swap[1], tl_swap[2])
           /\ tl_out2[k].variance =
                  SwapEntries(tl_out[k].variance, tl_swap[1], tl_swap[2])

\* C12 as stated: for every image, radii, powers and swizzle S, the
\* computation with S' (S with the entries of two output channels exchanged)
\* gives the averages and variances obtained with S with those two channels
\* exchanged at every pixel, the other channels unchanged.
C12_SwizzleSwapAnyChannels ==
    tl_pc = "swapped" => StoresSwapped

\* C12, amended: the same, when the two exchanged output channels are both
\* colour channels (r, g, b) or when rgb_power = alpha_power; the power curve
\* is applied after the swizzle, with rgb_power on the output channels
\* r, g, b and alpha_power on the output channel a.
C12_SwizzleSwapSamePower ==
    (/\ tl_pc = "swapped"
     /\ (tl_swap[2] <= 3 \/ tl_arg.rgb_power = tl_arg.alpha_power)) =>
        StoresSwapped

\* C12 happens: the asymmetric image under a swizzle that is not the
\* identity, the entries of the channels r and a exchanged, and the exchange
\* changes what is stored
C12_AsymmetricSwapDone ==
    /\ tl_pc = "swapped" /\ tl_swap = <<1, 4>>
    /\ tl_arg.img.pattern = "ramp" /\ tl_arg.swz /= IdentitySwz
    /\ tl_arg.avg_var_kernel_radius = 1 /\ tl_arg.alpha_kernel_radius = 1
    /\ tl_out2 /= tl_out

----------------------------------------------------------------------------
(* Properties: the window of a pixel                                        *)

\* the corners used for pixel k (from 0) of the tile of the call
CornersOf(k) == Corners(tl_arg, RegionDims(tl_arg), LoopPos(tl_arg, k))

\* the number of work-buffer cells the lookups at the corners c sum
WindowCells(c) ==
    (c.x_high - c.x_low) * (c.y_high - c.y_low)
        * (IF tl_arg.have_z THEN c.z_high - c.z_low ELSE 1)

\* the number of cells of the window of half-width r
FullWindow(r) ==
    IF tl_arg.have_z THEN (2 * r + 1) * (2 * r + 1) * (2 * r + 1)
    ELSE (2 * r + 1) * (2 * r + 1)

\* the image coordinates of pixel k of the tile of the call
TilePixel(k) ==
    LET pos == LoopPos(tl_arg, k)
    IN [x |-> pos.x + tl_arg.offset[1], y |-> pos.y + tl_arg.offset[2],
        z |-> pos.z + tl_arg.offset[3]]

\* the pixel q is closer than r to an edge of the image
NearEdge(q, r) ==
    \/ q.x < r \/ q.x + r > tl_arg.img.dim_x - 1
    \/ q.y < r \/ q.y + r > tl_arg.img.dim_y - 1
    \/ (tl_arg.have_z /\ (q.z < r \/ q.z + r > tl_arg.img.dim_z - 1))

\* the sum, cell by cell, of the alpha samples of the work buffer in the
\* window with the corners c (the cells after the low corner, up to the
\* high corner)
AlphaCellSum(c) ==
    LET dm == RegionDims(tl_arg)
        at(z, y, x) == Ld(tl_pad.varbuf1, VARBUF(dm, z, y, x))[4]
        xs(z, y) == RSum([x \in (c.x_low + 1)..c.x_high |-> at(z, y, x)],
                         c.x_low + 1, c.x_high)
        ys(z) == RSum([y \in (c.y_low + 1)..c.y_high |-> xs(z, y)],
                      c.y_low + 1, c.y_high)
    IN IF tl_arg.have_z
       THEN RSum([z \in (c.z_low + 1)..c.z_high |-> ys(z)],
                 c.z_low + 1, c.z_high)
       ELSE ys(0)

----------------------------------------------------------------------------
(* Properties: the sampling                                                 *)

\* C14: every cell (z, y, x) of the work buffer outside the layer of zeros
\* holds the image pixel at the source coordinate (x_src, y_src, z_src),
\* each axis being the cell index - 1 (- zd_start for z) + the tile offset
\* - the combined radius, clamped to [0, dim - 1]; in a volumetric image
\* cells of different z_src hold pixels of different z slices.
C14_SamplesAtSourceCoords ==
    tl_pc = "called" =>
        LET dm == RegionDims(tl_arg)
            R == MAX(tl_arg.avg_var_kernel_radius, tl_arg.alpha_kernel_radius)
        IN \A z \in dm.zd_start..(dm.padsize_z - 1) :
             \A y \in 1..(dm.padsize_y - 1) :
               \A x \in 1..(dm.padsize_x - 1) :
                 LET z_src == IF tl_arg.have_z
                              THEN clamp(z - 1 + tl_arg.offset[3] - R,
                                         0, tl_arg.img.dim_z - 1)
                              ELSE 0
                     y_src == clamp(y - 1 + tl_arg.offset[2] - R,
                                    0, tl_arg.img.dim_y - 1)
                     x_src == clamp(x - 1 + tl_arg.offset[1] - R,
                                    0, tl_arg.img.dim_x - 1)
                 IN F4Norm(Ld(tl_pad.varbuf1, VARBUF(dm, z, y, x)))
                        = F4Norm(Decoded(tl_arg, x_src, y_src, z_src))

----------------------------------------------------------------------------
(* Properties: the tiles of a run                                           *)

\* the pixel (x, y, z) is in the box of tile t
InTile(t, x, y, z) ==
    /\ t.offset[1] <= x /\ x < t.offset[1] + t.size[1]
    /\ t.offset[2] <= y /\ y < t.offset[2] + t.size[2]
    /\ t.offset[3] <= z /\ z < t.offset[3] + t.size[3]

\* the boxes of the tiles t and u have a pixel in common
TilesOverlap(t, u) ==
    \A k \in 1..3 : /\ t.offset[k] < u.offset[k] + u.size[k]
                    /\ u.offset[k] < t.offset[k] + t.size[k]

\* C15: every tile passed to compute_pixel_region_variance during a run has
\* extent >= 1 on each axis, at most 32 in x and y (2D) or at most 16 in x,
\* y and z (volumetric), and lies inside the image; the tiles of a run do
\* not overlap, and those of a complete run leave no pixel uncovered.
C15_TilesPartitionImage ==
    LET dims == <<cfg.img.dim_x, cfg.img.dim_y, cfg.img.dim_z>>
        cap == IF cfg.img.dim_z > 1 THEN <<16, 16, 16>> ELSE <<32, 32, 1>>
    IN /\ \A t \in tiles : \A k \in 1..3 :
              /\ 1 <= t.size[k] /\ t.size[k] <= cap[k]
              /\ 0 <= t.offset[k] /\ t.offset[k] + t.size[k] <= dims[k]
       /\ \A t, u \in tiles : TilesOverlap(t, u) => t = u
       /\ AllLeft =>
              \A x \in 0..(dims[1] - 1), y \in 0..(dims[2] - 1),
                 z \in 0..(dims[3] - 1) :
                  \E t \in tiles : InTile(t, x, y, z)

----------------------------------------------------------------------------
(* Properties: the geometry of a run                                        *)

\* the least q with q * d >= n
CeilDiv(n, d) == CHOOSE q \in 0..n : q * d >= n /\ (q - 1) * d < n

\* the capped tile extent on axis k (1, 2, 3 for x, y, z) of the image
TileCap(img, k) ==
    IF k = 3 THEN (IF img.dim_z > 1 THEN MIN(img.dim_z, 16) ELSE 1)
    ELSE IF img.dim_z > 1 THEN 16 ELSE 32

\* the number of tiles along axis k of the image
TilesAlong(img, k) ==
    CeilDiv(<<img.dim_x, img.dim_y, img.dim_z>>[k], TileCap(img, k))

SetupDone == pc[1] = "translate"

\* C16 as stated: the unit count returned by
\* init_compute_averages_and_variances is the product of the tile counts of
\* the axes, ceil(image dimension / capped tile extent) on each.
C16_UnitsAreAllTiles ==
    SetupDone =>
        task_count = TilesAlong(cfg.img, 1) * TilesAlong(cfg.img, 2)
                         * TilesAlong(cfg.img, 3)

\* C16, amended: the unit count is the product of the tile counts of the y
\* and z axes; the x axis does not count, a unit being a whole row of tiles
\* along x.
C16_UnitsAreTileRows ==
    SetupDone =>
        task_count = TilesAlong(cfg.img, 2) * TilesAlong(cfg.img, 3)

\* C16 happens: an image of two tiles along x, and of several along y and z
C16_WideImageSetUp ==
    /\ SetupDone /\ cfg.img.dim_x = 17 /\ cfg.img.dim_y = 33
    /\ cfg.img.dim_z = 17 /\ task_count = 6

\* work_memory_size as the function computes it for the image of size
\* (x, y, z) and the radii of this run
WorkMemoryFor(x, y, z) ==
    init_compute_averages_and_variances(
        Image(<<x, y, z>>, cfg.img.data_type, cfg.img.pattern),
        cfg.rgb_power, cfg.alpha_power, cfg.avg_var_kernel_radius,
        cfg.alpha_kernel_radius, cfg.swz).ag.work_memory_size

\* x * x * x
Cube(x) == x * x * x

\* C17: work_memory_size depends only on the two kernel radii and on
\* whether the image is volumetric (with min(dim_z, 16) for z): for fixed
\* radii it is the same for every dim_x and dim_y, and for every dim_z of
\* the same min(dim_z, 16), and it is at most 2 * (32 + 2 * R + 1)^3, R being
\* the larger radius, whatever the image size.
C17_WorkMemoryBounded ==
    (SetupDone /\ count[1] = 0) =>
        /\ \A x \in {1, 17, 33}, y \in GeomDims :
               WorkMemoryFor(x, y, cfg.img.dim_z) = ag.work_memory_size
        /\ \A z \in GeomDims :
               MIN(z, 16) = MIN(cfg.img.dim_z, 16) =>
                   WorkMemoryFor(cfg.img.dim_x, cfg.img.dim_y, z)
                       = ag.work_memory_size
        /\ ag.work_memory_size
               <= 2 * Cube(32 + 2 * MAX(cfg.avg_var_kernel_radius,
                                        cfg.alpha_kernel_radius) + 1)

\* C17 happens: the function has sized the work buffer of an image of
\* several tiles on every axis, with unequal radii
C17_LargeImageSized ==
    /\ SetupDone /\ count[1] = 0
    /\ cfg.img.dim_x = 33 /\ cfg.img.dim_y = 65 /\ cfg.img.dim_z = 65
    /\ cfg.avg_var_kernel_radius = 1 /\ cfg.alpha_kernel_radius = 0
    /\ ag.work_memory_size = 2 * Cube(16 + 3)

\* a unit has been translated into a tile row
Translated == pc[1] = "translate" /\ count[1] = 1

\* C19: for every unit index base in [0, total units) the translation gives
\* the offsets y = (base mod y_tasks) * step_y and
\* z = (base div y_tasks) * step_z, with 0 <= y < dim_y and 0 <= z < dim_z;
\* distinct units get distinct (y, z) offsets, and every pair of a y tile
\* and a z tile is the offset of exactly one unit.
C19_UnitsRowMajor ==
    Translated =>
        LET step_y == ag.blk_size[2]
            step_z == ag.blk_size[3]
            ytiles == TilesAlong(cfg.img, 2)
            ztiles == TilesAlong(cfg.img, 3)
            at(b) == <<UnitTile(b).offset_g, UnitTile(b).offset_b>>
        IN /\ arg[1].offset[2] = (base[1] % ytiles) * step_y
           /\ arg[1].offset[3] = (base[1] \div ytiles) * step_z
           /\ 0 <= arg[1].offset[2] /\ arg[1].offset[2] < cfg.img.dim_y
           /\ 0 <= arg[1].offset[3] /\ arg[1].offset[3] < cfg.img.dim_z
           /\ \A b \in 0..(task_count - 1) :
                  at(b) = at(base[1]) => b = base[1]
           /\ \A i \in 0..(ytiles - 1), j \in 0..(ztiles - 1) :
                  \E b \in 0..(task_count - 1) :
                      at(b) = <<i * step_y, j * step_z>>

----------------------------------------------------------------------------
(* Properties: what a run has written                                       *)

\* the unit whose tile row contains the pixel of output index i
UnitOfPixel(i) ==
    LET q == PixelOf(cfg, i)
    IN (q.z \div TileCap(cfg.img, 3)) * TilesAlong(cfg.img, 2)
           + (q.y \div TileCap(cfg.img, 2))

Granted(u) == \E g \in grants : g.base = u

\* C18: in every reachable state of a run, complete or abandoned between
\* tiles, an output index has been written only if the unit whose tile row
\* contains its pixel has been granted to some worker: the output slots of
\* the units never claimed are never written.
C18_UnclaimedUnitsUnwritten ==
    \A i \in 1..NumOut : Written(i) => Granted(UnitOfPixel(i - 1))

\* C18 happens: a run of three units stopped after two were granted and
\* written; the slots of the third are unwritten
C18_RunAbandoned ==
    /\ task_count = 3 /\ Cardinality(grants) = 2
    /\ \A w \in Workers : pc[w] /= "tile"
    /\ \E i \in 1..NumOut : Written(i) /\ UnitOfPixel(i - 1) = 1
    /\ \E i \in 1..NumOut : ~Written(i) /\ ~Granted(UnitOfPixel(i - 1))

----------------------------------------------------------------------------
(* Properties: the summed-area tables                                       *)

\* f[lo] + ... + f[hi] on float4 values
RECURSIVE F4Sum(_, _, _)
F4Sum(f, lo, hi) ==
    IF lo > hi THEN F4Splat(RZero) ELSE F4Add(F4Sum(f, lo, hi - 1), f[hi])

\* the sum of the cells (z', y', x') of the plane buf with x' <= x, y' <= y
\* and, in a volumetric tile, z' <= z (in a 2D tile, z' = z)
BoxSum(buf, z, y, x) ==
    LET dm == RegionDims(tl_arg)
        xs(zz, yy) == F4Sum([xx \in 0..x |-> Ld(buf, VARBUF(dm, zz, yy, xx))],
                            0, x)
        ys(zz) == F4Sum([yy \in 0..y |-> xs(zz, yy)], 0, y)
    IN IF tl_arg.have_z THEN F4Sum([zz \in 0..z |-> ys(zz)], 0, z)
       ELSE ys(z)

\* C20: after the prefix sums along x, then y, then (volumetric only) z,
\* every cell (z, y, x) of the value plane and of the squared-value plane
\* holds the sum of the sampled values of the cells (z', y', x') with
\* x' <= x, y' <= y and, when volumetric, z' <= z.
C20_TablesHoldBoxSums ==
    tl_pc = "called" =>
        LET dm == RegionDims(tl_arg)
        IN \A p \in {"varbuf1", "varbuf2"} :
             \A z \in 0..(dm.padsize_z - 1), y \in 0..(dm.padsize_y - 1),
                x \in 0..(dm.padsize_x - 1) :
                 F4Norm(Ld(tl_sat[p], VARBUF(dm, z, y, x)))
                     = F4Norm(BoxSum(tl_pad[p], z, y, x))

\* C20 happens: the tables of a volumetric tile padded by radius 1, summed
\* along the three axes
C20_VolumetricTableBuilt ==
    /\ tl_pc = "called" /\ tl_arg.have_z
    /\ tl_arg.size = <<2, 2, 2>> /\ tl_arg.avg_var_kernel_radius = 1
    /\ LET dm == RegionDims(tl_arg)
           last == VARBUF(dm, dm.padsize_z - 1, dm.padsize_y - 1,
                          dm.padsize_x - 1)
       IN /\ dm.padsize_z = 5
          /\ Ld(tl_sat.varbuf2, last) /= Ld(tl_pad.varbuf2, last)
          /\ Ld(tl_sat.varbuf1, last) /= Ld(tl_sat.varbuf1, last - dm.zst)

----------------------------------------------------------------------------
(* Properties: the layer of zeros                                           *)

\* cell i of a plane is in the layer of zeros: its x index or its y index
\* is 0, or, in a volumetric tile, its z index
BorderCell(i) ==
    LET dm == RegionDims(tl_arg)
    IN \/ i % dm.yst = 0
       \/ (i % dm.zst) \div dm.yst = 0
       \/ (tl_arg.have_z /\ i \div dm.zst = 0)

\* C21: after the border fill, and still after the construction of the
\* summed-area tables, every cell of both planes of the work buffer with x
\* index 0 or y index 0 (and, when volumetric, z index 0) is zero: the
\* prefix sums modify no border cell.
C21_BorderStaysZero ==
    tl_pc = "called" =>
        \A p \in {"varbuf1", "varbuf2"} :
            \A i \in 0..(RegionDims(tl_arg).sizeprod - 1) :
                BorderCell(i) =>
                    /\ Ld(tl_pad[p], i) = F4Splat(RZero)
                    /\ Ld(tl_sat[p], i) = F4Splat(RZero)

\* C21 happens: the tables of a volumetric tile are built, the prefix sums
\* have changed the cells next to the border on each axis
C21_SumsBesideBorder ==
    /\ tl_pc = "called" /\ tl_arg.have_z
    /\ tl_arg.size = <<2, 2, 2>> /\ tl_arg.alpha_kernel_radius = 1
    /\ LET dm == RegionDims(tl_arg)
       IN /\ BorderCell(VARBUF(dm, 0, 2, 2)) /\ BorderCell(VARBUF(dm, 2, 0, 2))
          /\ BorderCell(VARBUF(dm, 2, 2, 0))
          /\ \A c \in {VARBUF(dm, 1, 1, 2), VARBUF(dm, 1, 2, 1),
                        VARBUF(dm, 2, 1, 1)} :
                 Ld(tl_sat.varbuf1, c) /= Ld(tl_pad.varbuf1, c)

----------------------------------------------------------------------------
(* Properties: what a call writes                                           *)

\* the tile of the arguments a lies inside the image
TileInside(a) ==
    \A k \in 1..3 :
        /\ a.size[k] >= 1 /\ a.offset[k] >= 0
        /\ a.offset[k] + a.size[k]
               <= <<a.img.dim_x, a.img.dim_y, a.img.dim_z>>[k]

\* the call of worker w on its current tile returns in this step
CallReturns(w) == pc[w] = "tile" /\ xcur'[w] /= xcur[w]

\* the three output arrays at index i (from 0)
OutputsAt(i) ==
    <<input_averages[i + 1], input_variances[i + 1],
      input_alpha_averages[i + 1]>>

----------------------------------------------------------------------------
(* Properties: the order of the phases of a call                            *)

\* the phase `step` runs in this step
Runs(step) == ph_step = step /\ ph_step' /= step

\* the planes of the call in progress as the load loops and the border fill
\* leave them
PadOf == PadZeros(ph_arg, LoadWorkBuffers(ph_arg))

\* the planes after the sums along x, and after those along x and then y
SummedX(b) == [p \in {"varbuf1", "varbuf2"} |-> SumAlongX(ph_arg, b[p])]
SummedY(b) == [p \in {"varbuf1", "varbuf2"} |-> SumAlongY(ph_arg, b[p])]

\* C23: within one tile the phases are strictly ordered: every cell of the
\* work buffer is sampled and the border is zeroed before any prefix sum
\* runs, the prefix sums run along x, then y, then z, and all have finished
\* before the first output of the tile is written, and the work buffer is
\* not sampled again for the next tile of the same worker until the last
\* output of the current tile has been written.
C23_PhasesInOrder ==
    [][/\ Runs("sum_x") => ph_buf = PadOf
       /\ Runs("sum_y") => ph_buf = SummedX(PadOf)
       /\ Runs("sum_z") => ph_buf = SummedY(SummedX(PadOf))
       /\ (ph_step = "store" /\ ph_out = <<>> /\ ph_out' /= <<>>) =>
              ph_buf = SummedAreaTables(ph_arg, PadOf)
       /\ Runs("load") =>
              (tiles = {} \/ Len(ph_out) = LoopCount(ph_arg))]_<<ph_step, ph_out>>

\* C23 happens: the second tile of a row of a volumetric image is being
\* written, its first output stored and its last one not yet
C23_SecondTileStoring ==
    /\ ph_step = "store" /\ Len(ph_out) = 1
    /\ ph_arg.have_z /\ ph_arg.offset = <<16, 0, 0>>
    /\ ph_arg.avg_var_kernel_radius = 1
    /\ writes[17] = 1 /\ writes[17 + 17] = 0

----------------------------------------------------------------------------
(* Properties: the work memory                                              *)

\* the tile entered: the arguments of the call of line 649
InCall == pc[1] = "tile"

\* the cell i of a plane is inside the work memory, in varbuf1 (which
\* begins at cell 0 of the memory) and in varbuf2 (which begins at sizeprod)
InWorkMemory(a, i) ==
    /\ 0 <= i /\ i < ag.work_memory_size
    /\ 0 <= RegionDims(a).sizeprod + i
    /\ RegionDims(a).sizeprod + i < ag.work_memory_size

\* the cells of a plane the load loops and the border fill touch
LoadAndPadInside(a) ==
    LET dm == RegionDims(a)
    IN /\ \A z \in dm.zd_start..(dm.padsize_z - 1), y \in 1..(dm.padsize_y - 1),
             x \in 1..(dm.padsize_x - 1) : InWorkMemory(a, VARBUF(dm, z, y, x))
       /\ \A z \in 0..(dm.padsize_z - 1) :
              /\ \A y \in 0..(dm.padsize_y - 1) :
                     InWorkMemory(a, VARBUF(dm, z, y, 0))
              /\ \A x \in 0..(dm.padsize_x - 1) :
                     InWorkMemory(a, VARBUF(dm, z, 0, x))
       /\ a.have_z =>
              \A y \in 0..(dm.padsize_y - 1), x \in 0..(dm.padsize_x - 1) :
                  InWorkMemory(a, VARBUF(dm, 0, y, x))

\* the cells the prefix sums touch, line by line
SumsInside(a) ==
    LET dm == RegionDims(a)
    IN /\ \A z \in dm.zd_start..(dm.padsize_z - 1), y \in 1..(dm.padsize_y - 1) :
              \A i \in BKCells(VARBUF(dm, z, y, 1), dm.padsize_x - 1, 1) :
                  InWorkMemory(a, i)
       /\ \A z \in dm.zd_start..(dm.padsize_z - 1), x \in 1..(dm.padsize_x - 1) :
              \A i \in BKCells(VARBUF(dm, z, 1, x), dm.padsize_y - 1, dm.yst) :
                  InWorkMemory(a, i)
       /\ a.have_z =>
              \A y \in 1..(dm.padsize_y - 1), x \in 1..(dm.padsize_x - 1) :
                  \A i \in BKCells(VARBUF(dm, 1, y, x), dm.padsize_z - 1,
                                   dm.zst) :
                      InWorkMemory(a, i)

\* the corners of every pixel of the tile, and the cells looked up at them
CornersInside(a) ==
    LET dm == RegionDims(a)
    IN \A k \in 0..(LoopCount(a) - 1) :
           LET c == Corners(a, dm, LoopPos(a, k))
           IN /\ {c.x_low, c.x_high} \subseteq 0..(dm.padsize_x - 1)
              /\ {c.y_low, c.y_high} \subseteq 0..(dm.padsize_y - 1)
              /\ a.have_z =>
                     {c.z_low, c.z_high} \subseteq 0..(dm.padsize_z - 1)
              /\ \A z \in {c.z_low, c.z_high}, y \in {c.y_low, c.y_high},
                    x \in {c.x_low, c.x_high} :
                     InWorkMemory(a, VARBUF(dm, z, y, x))

\* C24: for every image size, every pair of radii and every tile of a run,
\* every work-buffer index read or written by compute_pixel_region_variance
\* (sampling, border fill, prefix sums with their strides, window corner
\* lookups) on either plane lies in [0, work_memory_size) as computed by
\* init_compute_averages_and_variances, and every corner index lies in
\* [0, padsize - 1] of its axis.
C24_WorkMemoryAccessesInside ==
    InCall =>
        /\ LoadAndPadInside(TileArg(1))
        /\ SumsInside(TileArg(1))
        /\ CornersInside(TileArg(1))

\* C24 happens: a tile of the full volumetric extent with alpha radius 1 is
\* entered; its two planes fill the work memory to the last cell
C24_FullTileEntered ==
    /\ InCall /\ TileArg(1).size = <<16, 16, 16>>
    /\ TileArg(1).offset = <<16, 16, 0>>
    /\ cfg.alpha_kernel_radius = 1 /\ cfg.avg_var_kernel_radius = 0
    /\ 2 * RegionDims(TileArg(1)).sizeprod = ag.work_memory_size

----------------------------------------------------------------------------
(* Properties: the stores of a run                                          *)

\* C25: for every image size, 2D and volumetric, and every granted unit,
\* every out_index written by compute_pixel_region_variance satisfies
\* 0 <= out_index < dim_x * dim_y * dim_z, and every tile offset and extent
\* passed to it is non-negative.
C25_StoresInsideOutputs ==
    /\ ~oob
    /\ \A t \in tiles : \A k \in 1..3 : t.offset[k] >= 0 /\ t.size[k] >= 0

----------------------------------------------------------------------------
(* Properties: the claims of the workers                                    *)

\* the value init_compute_averages_and_variances returns for this run
TotalUnits ==
    init_compute_averages_and_variances(
        cfg.img, cfg.rgb_power, cfg.alpha_power, cfg.avg_var_kernel_radius,
        cfg.alpha_kernel_radius, cfg.swz).ret

\* C26: the assertion of the worker loop always holds: every claim made by
\* compute_averages_and_variances that grants a non-zero count grants
\* exactly 1 unit, and the granted base index is in [0, total units), total
\* units being the value init_compute_averages_and_variances returned.
C26_ClaimsGrantOneUnit ==
    /\ \A w \in Workers :
           /\ count[w] \in {0, 1}
           /\ pc[w] \in {"tile", "complete"} =>
                  (count[w] = 1 /\ 0 <= base[w] /\ base[w] < TotalUnits)
    /\ \A g \in grants : 0 <= g.base /\ g.base < TotalUnits

\* C26 happens: the last of three units has been granted, to a worker that
\* holds it while the other worker holds the unit before it
C26_LastUnitGranted ==
    /\ TotalUnits = 3 /\ start_count = 3
    /\ \E w, v \in Workers :
           /\ pc[w] = "tile" /\ base[w] = 2 /\ count[w] = 1
           /\ pc[v] = "tile" /\ base[v] = 1

----------------------------------------------------------------------------
(* Properties: the completion of the units                                  *)

\* the worker of the grant g still holds the unit of g
Held(g) == pc[g.w] \in {"tile", "complete"} /\ base[g.w] = g.base

\* every tile of the row of unit b has been passed to
\* compute_pixel_region_variance
RowProcessed(b) ==
    \A k \in 0..((ag.img_size[1] - 1) \div ag.blk_size[1]) :
        \E t \in tiles : t.base = b /\ t.offset[1] = k * ag.blk_size[1]

\* worker w reports its unit complete in this step
Reports(w) == pc[w] = "complete" /\ pc'[w] = "claim"

\* C27: each granted unit is reported complete (complete_task_assignment)
\* exactly once, by the worker that claimed it, and only after every x tile
\* of that unit has been processed; when all workers have exited, the number
\* of completed units equals the total unit count, and in no reachable state
\* does it exceed the number of granted units.
C27_UnitsCompletedOnce ==
    /\ [](/\ done_count = Cardinality({g \in grants : ~Held(g)})
          /\ done_count <= Cardinality(grants)
          /\ AllLeft => done_count = task_count)
    /\ [][\E w \in Workers :
              /\ Reports(w)
              /\ done_count' = done_count + 1
              /\ \E g \in grants : g.w = w /\ g.base = base[w]
              /\ RowProcessed(base[w])]_done_count

\* C27 happens: a run of three units on two workers is over, each worker
\* has reported at least one unit
C27_AllUnitsReported ==
    /\ AllLeft /\ task_count = 3 /\ done_count = 3
    /\ \E g, h \in grants : g.w /= h.w

----------------------------------------------------------------------------
(* Properties: the fast path of the identity swizzle                        *)

\* the pixel the load loops of the 8-bit and 32-bit float formats fetch for
\* the work-buffer cell (z, y, x) of the call, as floats, before any swizzle
Fetched(z, y, x) ==
    LET s == SrcCoord(tl_arg, RegionDims(tl_arg), z, y, x)
        raw == ImgPixel(tl_arg.img, s.y * tl_arg.img.dim_x + s.x)
    IN IF tl_arg.img.data_type = ASTCENC_TYPE_U8
       THEN Array(4, [c \in 1..4 |-> RNorm(<<raw[c], 255>>)])
       ELSE raw

\* C28: for the 8-bit and the 32-bit float formats, the fast path of the
\* identity swizzle (needs_swz false, no remap) gives for every pixel the
\* sampled 4-vector of the general path, which copies the four channels into
\* the lookup table and selects data[swz.r], data[swz.g], data[swz.b],
\* data[swz.a], taken with the identity swizzle; for a swizzle that is not
\* the identity each output channel is the selected source channel, 0 or 1.
C28_FastPathIsGeneralPath ==
    (/\ tl_pc = "called"
     /\ tl_arg.img.data_type \in {ASTCENC_TYPE_U8, ASTCENC_TYPE_F32}) =>
        LET dm == RegionDims(tl_arg)
        IN \A z \in dm.zd_start..(dm.padsize_z - 1), y \in 1..(dm.padsize_y - 1),
              x \in 1..(dm.padsize_x - 1) :
               LET d == F4Norm(Ld(tl_pad.varbuf1, VARBUF(dm, z, y, x)))
                   src == Fetched(z, y, x)
               IN IF tl_arg.swz = IdentitySwz
                  THEN d = F4Norm(SwizzleTable(src, RZero, ROne, IdentitySwz))
                  ELSE \A c \in 1..4 :
                           d[c] = CASE tl_arg.swz[c] = ASTCENC_SWZ_0 -> RZero
                                    [] tl_arg.swz[c] = ASTCENC_SWZ_1 -> ROne
                                    [] OTHER -> RNorm(src[tl_arg.swz[c] + 1])

\* C28 happens: an 8-bit tile sampled under a swizzle with constants; a
\* cell holds blue in r, 0 in g, red in b and 1 in a, and blue is not red
C28_ConstantSwizzleSampled ==
    /\ tl_pc = "called" /\ tl_arg.img.data_type = ASTCENC_TYPE_U8
    /\ tl_arg.swz = <<ASTCENC_SWZ_B, ASTCENC_SWZ_0, ASTCENC_SWZ_R, ASTCENC_SWZ_1>>
    /\ tl_arg.img.dim_x = 4 /\ tl_arg.offset = <<0, 0, 0>>
    /\ LET dm == RegionDims(tl_arg)
           d == F4Norm(Ld(tl_pad.varbuf1, VARBUF(dm, 0, dm.padsize_y - 1,
                                                 dm.padsize_x - 1)))
       IN d[2] = RZero /\ d[4] = ROne /\ d[1] /= d[3]

----------------------------------------------------------------------------
(* Properties: MmapHelper                                                   *)

\* C29: after any sequence of MmapHelper::open and MmapHelper::close calls,
\* whenever open has returned false on a helper that held no mapping, the
\* helper still holds no mapping (addr is null), so that a later close or
\* destructor unmaps nothing and a later open can succeed; and open on a
\* helper that already holds a mapping returns false and leaves addr and
\* length unchanged.
C29_FailedOpenHoldsNothing ==
    [][/\ (mm_op' = "open" /\ mm_addr = MAP_NULL /\ mm_ret' = "false") =>
              mm_addr' = MAP_NULL
       /\ (mm_op' = "open" /\ mm_addr /= MAP_NULL) =>
              (mm_ret' = "false" /\ mm_addr' = mm_addr
               /\ mm_length' = mm_length)
       /\ mm_op' \in {"close", "~"} =>
              (mm_unmapped' = "none" \/ mm_unmapped' \in mm_live)]_mmVars

====
